---- MODULE Spec2Model ----
(***************************************************************************)
(* Lunch weather bot: the rate-limited message ledger (DynamoDB storage    *)
(* service), the weather-check handler (decision engine) and the reply     *)
(* handler, modelled as a state machine over one shared table.             *)
(*                                                                         *)
(* Time is counted in whole days; day 0 is a Monday.  A calendar date      *)
(* 'yyyy-MM-dd' is the day number, a timestamp is the day number of the    *)
(* instant it was taken.  An optional attribute is a set with zero or one  *)
(* element.                                                                *)
(***************************************************************************)
EXTENDS Integers, Sequences, FiniteSets, Bags, TLC

\* ---------------------------------------------------------------- bounds
\* number of operations (weather-check invocations, reply requests and clock
\* advances) explored from the initial state: when every call succeeds, when
\* calls may reject, and with two locations
MaxOps == 5
MaxErrOps == 4
MaxLocOps == 4
\* number of recordMessageSent calls and clock advances of a storage client
MaxStoreOps == 4
\* number of invocations, requests and clock advances when handlers overlap
MaxConcOps == 4
\* number of reply requests and clock advances when only requests arrive
MaxReqOps == 3
\* number of storage writes, cleanups and clock advances of a pruning client
MaxPruneOps == 4
\* number of configuration loads and cache resets of one process
MaxCacheOps == 4
\* number of handler runs when a run is repeated with another webhook URL
MaxSecretOps == 2
\* number of storage calls and clock advances when the table rejects commands
MaxFailOps == 3
\* number of invocations, outside writes and clock advances around the weekly guard
MaxWeeklyOps == 6
\* number of handler runs and clock advances when the forecast may be missing
MaxOutageOps == 4

\* ------------------------------------------------------ program constants
MAX_MESSAGES_PER_WEEK == 2
DYNAMO_TTL_DAYS == 30
CLEANUP_DAYS == 30
MIN_TEMPERATURE == 14
NOON_HOUR == 12

\* env.LOCATION_LAT and env.LOCATION_LON, in whole degrees
LOCATION_LAT == 48
LOCATION_LON == 11

GoodWeatherConditions == {"clear", "partly-cloudy"}
BadWeatherConditions == {"rain", "drizzle", "thunderstorm", "snow"}

\* env LOCATION_NAME of the deployment, and the names a request may carry
DefaultLocation == "Munich"

\* webhook URLs: the one in the secret, one the secret is rotated to, and one
\* an event supplies as overrides.slackWebhookUrl
SecretUrl == "https://hooks.slack.com/services/secret"
RotatedUrl == "https://hooks.slack.com/services/rotated"
OverrideUrl == "https://hooks.slack.com/services/override"
WebhookUrls == {SecretUrl, RotatedUrl, OverrideUrl}
Locations == {"Munich", "Berlin"}

MessageTypes == {"weather_reminder", "weather_warning"}

\* ------------------------------------------------------------ calendar
\* date-fns format(new Date(), 'yyyy-MM-dd')
Today(t) == t

\* startOfWeek(date, { weekStartsOn: 1 }) formatted as a date
getWeekStart(t) == t - (t % 7)

\* endOfWeek(now, { weekStartsOn: 1 }) formatted as a date
getWeekEnd(t) == getWeekStart(t) + 6

\* subDays(new Date(), days).getTime()
subDays(t, days) == t - days

\* variant: the key is built without the location
RecordId_NoLocation(location, messageType, bucket) == <<"", messageType, bucket>>

\* ------------------------------------------------------------ the table
\* composite primary key `${location}#${messageType}#${bucket}`
RecordId(location, messageType, bucket) == <<location, messageType, bucket>>

\* variant: the item is added without replacing the one stored under its id
PutItem_Append(table, item) == table \cup {item}

\* PutItemCommand: the item replaces any item with the same primary key
PutItem(table, item) == {r \in table : r.id # item.id} \cup {item}

\* QueryCommand with KeyConditionExpression 'id = :id'
QueryById(table, id) == {r \in table : r.id = id}

hasMessageBeenSentToday(table, messageType, location, t) ==
    Cardinality(QueryById(table, RecordId(location, messageType, {Today(t)}))) > 0

\* variant: the scan filters on location and type only
WeeklyMessages_AnyWeek(table, location, messageType, t) ==
    {r \in table : /\ r.location = location
                   /\ r.messageType = messageType
                   /\ r.date # {}
                   /\ \A d \in r.date : d <= getWeekEnd(t)}

\* the items the weekly scan's filter expression lets through
WeeklyMessages(table, location, messageType, t) ==
    {r \in table : /\ r.location = location
                   /\ r.messageType = messageType
                   /\ r.date # {}
                   /\ \A d \in r.date : d >= getWeekStart(t) /\ d <= getWeekEnd(t)}

\* date of the item with the largest timestamp ('' when there is none)
LastMessageDate(messages) ==
    IF messages = {} THEN {}
    ELSE (CHOOSE r \in messages : \A o \in messages : o.timestamp <= r.timestamp).date

\* variant: the limit compared with <= instead of <
getWeeklyMessageStats_Inclusive(table, location, messageType, t) ==
    LET messages == WeeklyMessages(table, location, messageType, t)
    IN  [weekStart |-> getWeekStart(t),
         messageCount |-> Cardinality(messages),
         lastMessageDate |-> LastMessageDate(messages),
         canSendMessage |-> Cardinality(messages) <= MAX_MESSAGES_PER_WEEK]

getWeeklyMessageStats(table, location, messageType, t) ==
    LET messages == WeeklyMessages(table, location, messageType, t)
    IN  [weekStart |-> getWeekStart(t),
         messageCount |-> Cardinality(messages),
         lastMessageDate |-> LastMessageDate(messages),
         canSendMessage |-> Cardinality(messages) < MAX_MESSAGES_PER_WEEK]

canSendMessageThisWeek(table, location, messageType, t) ==
    getWeeklyMessageStats(table, location, messageType, t).canSendMessage

\* variant: a conditional put that keeps the item already stored under the key
recordMessageSent_KeepFirst(table, messageType, location, temperature, weatherCondition, t) ==
    IF QueryById(table, RecordId(location, messageType, {Today(t)})) # {} THEN table
    ELSE PutItem(table, [id |-> RecordId(location, messageType, {Today(t)}),
                    date |-> {Today(t)},
                    timestamp |-> t,
                    messageType |-> messageType,
                    location |-> location,
                    ttl |-> {t + DYNAMO_TTL_DAYS},
                    temperature |-> {temperature},
                    weatherCondition |-> {weatherCondition},
                    optedIn |-> {}])

recordMessageSent(table, messageType, location, temperature, weatherCondition, t) ==
    PutItem(table, [id |-> RecordId(location, messageType, {Today(t)}),
                    date |-> {Today(t)},
                    timestamp |-> t,
                    messageType |-> messageType,
                    location |-> location,
                    ttl |-> {t + DYNAMO_TTL_DAYS},
                    temperature |-> {temperature},
                    weatherCondition |-> {weatherCondition},
                    optedIn |-> {}])

\* variant: items are pruned by the date they are stored for, dateless items never
cleanupOldRecords_ByDate(table, daysToKeep, t) ==
    {r \in table : \A d \in r.date : ~(d < subDays(t, daysToKeep))}

\* scan '#timestamp < :cutoffTimestamp', then one DeleteItem per hit
cleanupOldRecords(table, daysToKeep, t) ==
    {r \in table : ~(r.timestamp < subDays(t, daysToKeep))}

recordLunchConfirmation(table, location, weekStart, t) ==
    PutItem(table, [id |-> RecordId(location, "lunch_confirmation", {weekStart}),
                    date |-> {weekStart},
                    timestamp |-> t,
                    messageType |-> "lunch_confirmation",
                    location |-> location,
                    ttl |-> {t + DYNAMO_TTL_DAYS},
                    temperature |-> {},
                    weatherCondition |-> {},
                    optedIn |-> {}])

\* variant: the confirmation looked up under today instead of the week start
hasLunchBeenConfirmedThisWeek_Daily(table, location, t) ==
    Cardinality(QueryById(table, RecordId(location, "lunch_confirmation", {Today(t)}))) > 0

\* variant: any confirmation of the location counts, whatever its week
hasLunchBeenConfirmedThisWeek_AnyWeek(table, location, t) ==
    \E r \in table : r.location = location /\ r.messageType = "lunch_confirmation"

hasLunchBeenConfirmedThisWeek(table, location, t) ==
    Cardinality(QueryById(table, RecordId(location, "lunch_confirmation", {getWeekStart(t)}))) > 0

hasLunchBeenConfirmedForWeek(table, location, weekStart) ==
    Cardinality(QueryById(table, RecordId(location, "lunch_confirmation", {weekStart}))) > 0

\* the single preference item of a location: no date bucket, no expiry
setWeatherWarningOptInStatus(table, location, optedIn, t) ==
    PutItem(table, [id |-> RecordId(location, "weather_warning_optin", {}),
                    date |-> {},
                    timestamp |-> t,
                    messageType |-> "weather_warning_optin",
                    location |-> location,
                    ttl |-> {},
                    temperature |-> {},
                    weatherCondition |-> {},
                    optedIn |-> {optedIn}])

isOptedInToWeatherWarnings(table, location) ==
    \E r \in QueryById(table, RecordId(location, "weather_warning_optin", {})) :
        r.optedIn = {TRUE}

\* ------------------------------------------------------ weather service
\* hourly point the forecast API returns for the configured hour today:
\* temperature_2m in tenths of a degree and the Open-Meteo weather code
NoForecast == [found |-> FALSE, tenths |-> 0, weathercode |-> 0]
Forecasts ==
    {[found |-> TRUE, tenths |-> 145, weathercode |-> 0],
     [found |-> TRUE, tenths |-> 144, weathercode |-> 0],
     [found |-> TRUE, tenths |-> 52, weathercode |-> 61]}

\* Math.round on a value given in tenths
MathRound(tenths) == (tenths + 5) \div 10

getWeatherCondition(weatherCode) ==
    IF weatherCode <= 3 THEN [condition |-> "clear", description |-> "Clear to partly cloudy"]
    ELSE IF weatherCode <= 48 THEN [condition |-> "clouds", description |-> "Cloudy"]
    ELSE IF weatherCode <= 67 THEN [condition |-> "rain", description |-> "Rainy"]
    ELSE IF weatherCode <= 77 THEN [condition |-> "snow", description |-> "Snowy"]
    ELSE IF weatherCode <= 82 THEN [condition |-> "rain", description |-> "Showers"]
    ELSE IF weatherCode <= 99 THEN [condition |-> "thunderstorm", description |-> "Thunderstorm"]
    ELSE [condition |-> "unknown", description |-> "Unknown weather"]

\* variant: a condition listed as good is good even when it is also listed as bad
isWeatherGood_GoodWins(forecast, minTemperature, good, bad) ==
    IF ~forecast.found
    THEN [isGood |-> FALSE, temperature |-> 0,
          description |-> "No forecast available", condition |-> "unknown"]
    ELSE LET temperature == MathRound(forecast.tenths)
             weatherInfo == getWeatherCondition(forecast.weathercode)
             temperatureGood == temperature > minTemperature
             conditionGood == /\ weatherInfo.condition \in good
                              /\ TRUE
         IN  [isGood |-> temperatureGood /\ conditionGood,
              temperature |-> temperature,
              description |-> weatherInfo.description,
              condition |-> weatherInfo.condition]

\* variant: a missing forecast counts as good weather
isWeatherGood_NoForecastGood(forecast, minTemperature, good, bad) ==
    IF ~forecast.found
    THEN [isGood |-> TRUE, temperature |-> 0,
          description |-> "No forecast available", condition |-> "unknown"]
    ELSE LET temperature == MathRound(forecast.tenths)
             weatherInfo == getWeatherCondition(forecast.weathercode)
             temperatureGood == temperature > minTemperature
             conditionGood == /\ weatherInfo.condition \in good
                              /\ weatherInfo.condition \notin bad
         IN  [isGood |-> temperatureGood /\ conditionGood,
              temperature |-> temperature,
              description |-> weatherInfo.description,
              condition |-> weatherInfo.condition]

isWeatherGood(forecast, minTemperature, good, bad) ==
    IF ~forecast.found
    THEN [isGood |-> FALSE, temperature |-> 0,
          description |-> "No forecast available", condition |-> "unknown"]
    ELSE LET temperature == MathRound(forecast.tenths)
             weatherInfo == getWeatherCondition(forecast.weathercode)
             temperatureGood == temperature > minTemperature
             conditionGood == /\ weatherInfo.condition \in good
                              /\ weatherInfo.condition \notin bad
         IN  [isGood |-> temperatureGood /\ conditionGood,
              temperature |-> temperature,
              description |-> weatherInfo.description,
              condition |-> weatherInfo.condition]

NoVerdict == [isGood |-> FALSE, temperature |-> 0, description |-> "", condition |-> ""]

\* ------------------------------------------------------------- state
VARIABLES
    now,        \* the clock: current day number
    table,      \* the DynamoDB table: a set of items, one per primary key
    delivered,  \* bag of <<location, messageType, date>> the Slack webhook accepted
    inv,        \* weather-check invocations in flight, by process
    rep,        \* reply requests in flight, by process
    ops,        \* operations started so far
    confirmedWeeks, \* <<location, week>> of every confirm-lunch request without a
                    \* date that was answered 200
    lastCall,       \* the last method a client called directly, its
                    \* arguments, the table it found and its result
    cachedWebhookUrl,   \* utils/env module state of the process that loads the
                        \* configuration directly: {} is null, else the cached string
    secretCalls,    \* what getSecretValue answered to that process, call by call,
                    \* since its cache was last cleared
    secretWebhookUrl    \* the webhook_url that Secrets Manager holds for the handlers

vars == <<now, table, delivered, inv, rep, ops, confirmedWeeks, lastCall, cachedWebhookUrl, secretCalls, secretWebhookUrl>>

Procs == {1, 2}

NoStats == [weekStart |-> 0, messageCount |-> 0, lastMessageDate |-> {}, canSendMessage |-> FALSE]

\* an HTTP-style result: statusCode and the JSON body; 'keys' lists the keys
\* present in the body, the other fields hold their values
NoResponse ==
    [statusCode |-> 0, keys |-> {}, message |-> "", error |-> "", location |-> "",
     lunchConfirmed |-> FALSE, weather |-> NoVerdict, sent |-> FALSE, type |-> "",
     weeklyStats |-> NoStats, webhookUrl |-> ""]

IdleInv ==
    [pc |-> "idle", overrides |-> {}, urlOverride |-> {}, slackWebhookUrl |-> "",
     location |-> "", startTable |-> {},
     canSendThisWeek |-> FALSE, weeklyStats |-> NoStats, weatherCondition |-> NoVerdict,
     canSendWarning |-> FALSE, isOptedInForWarnings |-> FALSE,
     messageSent |-> FALSE, messageType |-> "", calls |-> <<>>, failed |-> "",
     response |-> NoResponse]

\* a trigger event: valid or not for lambdaEventSchema, overrides.locationName
\* and overrides.slackWebhookUrl
Events(overrides) ==
    {[valid |-> FALSE, locationName |-> {}, slackWebhookUrl |-> {}]}
    \cup {[valid |-> TRUE, locationName |-> o, slackWebhookUrl |-> {}] : o \in overrides}

\* valid events with and without a webhook URL of their own
UrlEvents == [valid : {TRUE}, locationName : {{}}, slackWebhookUrl : {{}, {OverrideUrl}}]

\* eventOverrides?.locationName || env.LOCATION_NAME
getCoordinates(overrides) ==
    IF overrides = {} \/ overrides = {""} THEN DefaultLocation
    ELSE CHOOSE l \in overrides : TRUE

Called(p, name) == Append(inv[p].calls, name)

\* variant: the catch block answers with status 200
ErrorResponse_Ok(status, error) ==
    [NoResponse EXCEPT !.statusCode = 200, !.keys = {"error", "message"}, !.error = error]

\* ------------------------------------------- weather-check handler steps
ErrorResponse(status, error) ==
    [NoResponse EXCEPT !.statusCode = status, !.keys = {"error", "message"}, !.error = error]

Start(p, event) ==
    /\ inv[p].pc = "idle"
    /\ ops' = ops + 1
    /\ IF ~event.valid
       THEN inv' = [inv EXCEPT ![p] = [@ EXCEPT
                !.pc = "done",
                !.startTable = table,
                !.response = [NoResponse EXCEPT !.statusCode = 400,
                                                !.keys = {"error", "details"},
                                                !.error = "Invalid event structure"]]]
       ELSE inv' = [inv EXCEPT ![p] = [@ EXCEPT
                !.pc = "getConfig",
                !.startTable = table,
                !.overrides = event.locationName,
                !.urlOverride = event.slackWebhookUrl]]
    /\ UNCHANGED <<now, table, delivered, rep, confirmedWeeks, lastCall, cachedWebhookUrl, secretCalls, secretWebhookUrl>>

GetConfig(p) ==
    /\ inv[p].pc = "getConfig"
    /\ inv' = [inv EXCEPT ![p] = [@ EXCEPT
            !.pc = "checkLunchConfirmed",
            !.location = getCoordinates(inv[p].overrides),
            !.slackWebhookUrl = IF inv[p].urlOverride # {}
                                THEN CHOOSE u \in inv[p].urlOverride : TRUE
                                ELSE secretWebhookUrl,
            !.calls = IF inv[p].urlOverride # {} THEN @ ELSE Called(p, "getSecretValue")]]
    /\ UNCHANGED <<now, table, delivered, rep, ops, confirmedWeeks, lastCall, cachedWebhookUrl, secretCalls, secretWebhookUrl>>

\* variant: the confirmation is read but never ends the invocation
CheckLunchConfirmed_NoExit(p) ==
    /\ inv[p].pc = "checkLunchConfirmed"
    /\ LET lunchConfirmedThisWeek == hasLunchBeenConfirmedThisWeek(table, inv[p].location, now)
       IN  inv' = [inv EXCEPT ![p] = [@ EXCEPT
               !.calls = Called(p, "hasLunchBeenConfirmedThisWeek"),
               !.pc = "checkSentToday",
               !.response =
                   IF FALSE /\ lunchConfirmedThisWeek
                   THEN [NoResponse EXCEPT
                           !.statusCode = 200,
                           !.keys = {"message", "location", "lunchConfirmed", "config"},
                           !.message = "Lunch already confirmed this week, no weather messages needed",
                           !.location = inv[p].location,
                           !.lunchConfirmed = TRUE,
                           !.webhookUrl = "[REDACTED]"]
                   ELSE @]]
    /\ UNCHANGED <<now, table, delivered, rep, ops, confirmedWeeks, lastCall, cachedWebhookUrl, secretCalls, secretWebhookUrl>>

CheckLunchConfirmed(p) ==
    /\ inv[p].pc = "checkLunchConfirmed"
    /\ LET lunchConfirmedThisWeek == hasLunchBeenConfirmedThisWeek(table, inv[p].location, now)
       IN  inv' = [inv EXCEPT ![p] = [@ EXCEPT
               !.calls = Called(p, "hasLunchBeenConfirmedThisWeek"),
               !.pc = IF lunchConfirmedThisWeek THEN "done" ELSE "checkSentToday",
               !.response =
                   IF lunchConfirmedThisWeek
                   THEN [NoResponse EXCEPT
                           !.statusCode = 200,
                           !.keys = {"message", "location", "lunchConfirmed", "config"},
                           !.message = "Lunch already confirmed this week, no weather messages needed",
                           !.location = inv[p].location,
                           !.lunchConfirmed = TRUE,
                           !.webhookUrl = "[REDACTED]"]
                   ELSE @]]
    /\ UNCHANGED <<now, table, delivered, rep, ops, confirmedWeeks, lastCall, cachedWebhookUrl, secretCalls, secretWebhookUrl>>

\* variant: the daily guard is read but never ends the invocation
CheckSentToday_NoExit(p) ==
    /\ inv[p].pc = "checkSentToday"
    /\ LET alreadySentToday ==
               hasMessageBeenSentToday(table, "weather_reminder", inv[p].location, now)
       IN  inv' = [inv EXCEPT ![p] = [@ EXCEPT
               !.calls = Called(p, "hasMessageBeenSentToday:weather_reminder"),
               !.pc = "checkWeekly",
               !.response =
                   IF FALSE
                   THEN [NoResponse EXCEPT
                           !.statusCode = 200,
                           !.keys = {"message", "location", "config"},
                           !.message = "Message already sent today",
                           !.location = inv[p].location,
                           !.webhookUrl = "[REDACTED]"]
                   ELSE @]]
    /\ UNCHANGED <<now, table, delivered, rep, ops, confirmedWeeks, lastCall, cachedWebhookUrl, secretCalls, secretWebhookUrl>>

\* variant: the already-sent-today exit is answered through the error response
CheckSentToday_AsError(p) ==
    /\ inv[p].pc = "checkSentToday"
    /\ LET alreadySentToday ==
               hasMessageBeenSentToday(table, "weather_reminder", inv[p].location, now)
       IN  inv' = [inv EXCEPT ![p] = [@ EXCEPT
               !.calls = Called(p, "hasMessageBeenSentToday:weather_reminder"),
               !.pc = IF alreadySentToday THEN "done" ELSE "checkWeekly",
               !.response =
                   IF alreadySentToday
                   THEN ErrorResponse(500, "Internal server error")
                   ELSE @]]
    /\ UNCHANGED <<now, table, delivered, rep, ops, confirmedWeeks, lastCall, cachedWebhookUrl, secretCalls, secretWebhookUrl>>

CheckSentToday(p) ==
    /\ inv[p].pc = "checkSentToday"
    /\ LET alreadySentToday ==
               hasMessageBeenSentToday(table, "weather_reminder", inv[p].location, now)
       IN  inv' = [inv EXCEPT ![p] = [@ EXCEPT
               !.calls = Called(p, "hasMessageBeenSentToday:weather_reminder"),
               !.pc = IF alreadySentToday THEN "done" ELSE "checkWeekly",
               !.response =
                   IF alreadySentToday
                   THEN [NoResponse EXCEPT
                           !.statusCode = 200,
                           !.keys = {"message", "location", "config"},
                           !.message = "Message already sent today",
                           !.location = inv[p].location,
                           !.webhookUrl = "[REDACTED]"]
                   ELSE @]]
    /\ UNCHANGED <<now, table, delivered, rep, ops, confirmedWeeks, lastCall, cachedWebhookUrl, secretCalls, secretWebhookUrl>>

CheckWeekly(p) ==
    /\ inv[p].pc = "checkWeekly"
    /\ inv' = [inv EXCEPT ![p] = [@ EXCEPT
            !.calls = Called(p, "canSendMessageThisWeek:weather_reminder"),
            !.canSendThisWeek =
                canSendMessageThisWeek(table, inv[p].location, "weather_reminder", now),
            !.pc = "getWeeklyStats"]]
    /\ UNCHANGED <<now, table, delivered, rep, ops, confirmedWeeks, lastCall, cachedWebhookUrl, secretCalls, secretWebhookUrl>>

\* variant: the weekly statistics are read but never end the invocation
GetWeeklyStats_NoExit(p) ==
    /\ inv[p].pc = "getWeeklyStats"
    /\ LET weeklyStats == getWeeklyMessageStats(table, inv[p].location, "weather_reminder", now)
       IN  inv' = [inv EXCEPT ![p] = [@ EXCEPT
               !.calls = Called(p, "getWeeklyMessageStats:weather_reminder"),
               !.weeklyStats = weeklyStats,
               !.pc = "isWeatherGood",
               !.response =
                   IF FALSE /\ ~inv[p].canSendThisWeek
                   THEN [NoResponse EXCEPT
                           !.statusCode = 200,
                           !.keys = {"message", "location", "weeklyStats", "config"},
                           !.message = "Weekly message limit reached",
                           !.location = inv[p].location,
                           !.weeklyStats = weeklyStats,
                           !.webhookUrl = "[REDACTED]"]
                   ELSE @]]
    /\ UNCHANGED <<now, table, delivered, rep, ops, confirmedWeeks, lastCall, cachedWebhookUrl, secretCalls, secretWebhookUrl>>

GetWeeklyStats(p) ==
    /\ inv[p].pc = "getWeeklyStats"
    /\ LET weeklyStats == getWeeklyMessageStats(table, inv[p].location, "weather_reminder", now)
       IN  inv' = [inv EXCEPT ![p] = [@ EXCEPT
               !.calls = Called(p, "getWeeklyMessageStats:weather_reminder"),
               !.weeklyStats = weeklyStats,
               !.pc = IF ~inv[p].canSendThisWeek THEN "done" ELSE "isWeatherGood",
               !.response =
                   IF ~inv[p].canSendThisWeek
                   THEN [NoResponse EXCEPT
                           !.statusCode = 200,
                           !.keys = {"message", "location", "weeklyStats", "config"},
                           !.message = "Weekly message limit reached",
                           !.location = inv[p].location,
                           !.weeklyStats = weeklyStats,
                           !.webhookUrl = "[REDACTED]"]
                   ELSE @]]
    /\ UNCHANGED <<now, table, delivered, rep, ops, confirmedWeeks, lastCall, cachedWebhookUrl, secretCalls, secretWebhookUrl>>

EvaluateWeather(p, forecast) ==
    /\ inv[p].pc = "isWeatherGood"
    /\ LET weatherCondition ==
               isWeatherGood(forecast, MIN_TEMPERATURE, GoodWeatherConditions, BadWeatherConditions)
       IN  inv' = [inv EXCEPT ![p] = [@ EXCEPT
               !.calls = Called(p, "isWeatherGood"),
               !.weatherCondition = weatherCondition,
               !.pc = IF weatherCondition.isGood THEN "sendWeatherReminder"
                                                 ELSE "isOptedInToWeatherWarnings"]]
    /\ UNCHANGED <<now, table, delivered, rep, ops, confirmedWeeks, lastCall, cachedWebhookUrl, secretCalls, secretWebhookUrl>>

SendReminder(p) ==
    /\ inv[p].pc = "sendWeatherReminder"
    /\ delivered' = delivered (+) SetToBag({<<inv[p].location, "weather_reminder", Today(now)>>})
    /\ inv' = [inv EXCEPT ![p] = [@ EXCEPT
            !.calls = Called(p, "sendWeatherReminder"),
            !.pc = "recordReminder"]]
    /\ UNCHANGED <<now, table, rep, ops, confirmedWeeks, lastCall, cachedWebhookUrl, secretCalls, secretWebhookUrl>>

\* variant: the reminder is recorded under the warning type
RecordReminder_AsWarning(p) ==
    /\ inv[p].pc = "recordReminder"
    /\ table' = recordMessageSent(table, "weather_warning", inv[p].location,
                                  inv[p].weatherCondition.temperature,
                                  inv[p].weatherCondition.condition, now)
    /\ inv' = [inv EXCEPT ![p] = [@ EXCEPT
            !.calls = Called(p, "recordMessageSent:weather_reminder"),
            !.messageSent = TRUE,
            !.messageType = "weather_reminder",
            !.pc = "cleanupOldRecords"]]
    /\ UNCHANGED <<now, delivered, rep, ops, confirmedWeeks, lastCall, cachedWebhookUrl, secretCalls, secretWebhookUrl>>

\* variant: the reminder is recorded with a fixed temperature instead of the verdict's
RecordReminder_NoVerdict(p) ==
    /\ inv[p].pc = "recordReminder"
    /\ table' = recordMessageSent(table, "weather_reminder", inv[p].location,
                                  0,
                                  inv[p].weatherCondition.condition, now)
    /\ inv' = [inv EXCEPT ![p] = [@ EXCEPT
            !.calls = Called(p, "recordMessageSent:weather_reminder"),
            !.messageSent = TRUE,
            !.messageType = "weather_reminder",
            !.pc = "cleanupOldRecords"]]
    /\ UNCHANGED <<now, delivered, rep, ops, confirmedWeeks, lastCall, cachedWebhookUrl, secretCalls, secretWebhookUrl>>

RecordReminder(p) ==
    /\ inv[p].pc = "recordReminder"
    /\ table' = recordMessageSent(table, "weather_reminder", inv[p].location,
                                  inv[p].weatherCondition.temperature,
                                  inv[p].weatherCondition.condition, now)
    /\ inv' = [inv EXCEPT ![p] = [@ EXCEPT
            !.calls = Called(p, "recordMessageSent:weather_reminder"),
            !.messageSent = TRUE,
            !.messageType = "weather_reminder",
            !.pc = "cleanupOldRecords"]]
    /\ UNCHANGED <<now, delivered, rep, ops, confirmedWeeks, lastCall, cachedWebhookUrl, secretCalls, secretWebhookUrl>>

\* variant: the preference is read but warnings go on regardless
CheckOptIn_Ignored(p) ==
    /\ inv[p].pc = "isOptedInToWeatherWarnings"
    /\ LET isOptedInForWarnings == isOptedInToWeatherWarnings(table, inv[p].location)
       IN  inv' = [inv EXCEPT ![p] = [@ EXCEPT
               !.calls = Called(p, "isOptedInToWeatherWarnings"),
               !.isOptedInForWarnings = isOptedInForWarnings,
               !.pc = "canSendWarning"]]
    /\ UNCHANGED <<now, table, delivered, rep, ops, confirmedWeeks, lastCall, cachedWebhookUrl, secretCalls, secretWebhookUrl>>

CheckOptIn(p) ==
    /\ inv[p].pc = "isOptedInToWeatherWarnings"
    /\ LET isOptedInForWarnings == isOptedInToWeatherWarnings(table, inv[p].location)
       IN  inv' = [inv EXCEPT ![p] = [@ EXCEPT
               !.calls = Called(p, "isOptedInToWeatherWarnings"),
               !.isOptedInForWarnings = isOptedInForWarnings,
               !.pc = IF ~isOptedInForWarnings THEN "cleanupOldRecords"
                                               ELSE "canSendWarning"]]
    /\ UNCHANGED <<now, table, delivered, rep, ops, confirmedWeeks, lastCall, cachedWebhookUrl, secretCalls, secretWebhookUrl>>

\* variant: warnings are not counted against a weekly limit
CheckWarningWeekly_NoCap(p) ==
    /\ inv[p].pc = "canSendWarning"
    /\ inv' = [inv EXCEPT ![p] = [@ EXCEPT
            !.calls = Called(p, "canSendMessageThisWeek:weather_warning"),
            !.canSendWarning =
                TRUE,
            !.pc = "alreadySentWarningToday"]]
    /\ UNCHANGED <<now, table, delivered, rep, ops, confirmedWeeks, lastCall, cachedWebhookUrl, secretCalls, secretWebhookUrl>>

CheckWarningWeekly(p) ==
    /\ inv[p].pc = "canSendWarning"
    /\ inv' = [inv EXCEPT ![p] = [@ EXCEPT
            !.calls = Called(p, "canSendMessageThisWeek:weather_warning"),
            !.canSendWarning =
                canSendMessageThisWeek(table, inv[p].location, "weather_warning", now),
            !.pc = "alreadySentWarningToday"]]
    /\ UNCHANGED <<now, table, delivered, rep, ops, confirmedWeeks, lastCall, cachedWebhookUrl, secretCalls, secretWebhookUrl>>

\* variant: only the weekly limit decides whether a warning is sent
CheckWarningToday_WeeklyOnly(p) ==
    /\ inv[p].pc = "alreadySentWarningToday"
    /\ LET alreadySentWarningToday ==
               hasMessageBeenSentToday(table, "weather_warning", inv[p].location, now)
       IN  inv' = [inv EXCEPT ![p] = [@ EXCEPT
               !.calls = Called(p, "hasMessageBeenSentToday:weather_warning"),
               !.pc = IF inv[p].canSendWarning \/ (FALSE /\ alreadySentWarningToday)
                      THEN "sendWeatherWarning" ELSE "cleanupOldRecords"]]
    /\ UNCHANGED <<now, table, delivered, rep, ops, confirmedWeeks, lastCall, cachedWebhookUrl, secretCalls, secretWebhookUrl>>

CheckWarningToday(p) ==
    /\ inv[p].pc = "alreadySentWarningToday"
    /\ LET alreadySentWarningToday ==
               hasMessageBeenSentToday(table, "weather_warning", inv[p].location, now)
       IN  inv' = [inv EXCEPT ![p] = [@ EXCEPT
               !.calls = Called(p, "hasMessageBeenSentToday:weather_warning"),
               !.pc = IF inv[p].canSendWarning /\ ~alreadySentWarningToday
                      THEN "sendWeatherWarning" ELSE "cleanupOldRecords"]]
    /\ UNCHANGED <<now, table, delivered, rep, ops, confirmedWeeks, lastCall, cachedWebhookUrl, secretCalls, secretWebhookUrl>>

SendWarning(p) ==
    /\ inv[p].pc = "sendWeatherWarning"
    /\ delivered' = delivered (+) SetToBag({<<inv[p].location, "weather_warning", Today(now)>>})
    /\ inv' = [inv EXCEPT ![p] = [@ EXCEPT
            !.calls = Called(p, "sendWeatherWarning"),
            !.pc = "recordWarning"]]
    /\ UNCHANGED <<now, table, rep, ops, confirmedWeeks, lastCall, cachedWebhookUrl, secretCalls, secretWebhookUrl>>

\* variant: the warning is recorded but not reported in the summary
RecordWarning_NoFlag(p) ==
    /\ inv[p].pc = "recordWarning"
    /\ table' = recordMessageSent(table, "weather_warning", inv[p].location,
                                  inv[p].weatherCondition.temperature,
                                  inv[p].weatherCondition.condition, now)
    /\ inv' = [inv EXCEPT ![p] = [@ EXCEPT
            !.calls = Called(p, "recordMessageSent:weather_warning"),
            !.pc = "cleanupOldRecords"]]
    /\ UNCHANGED <<now, delivered, rep, ops, confirmedWeeks, lastCall, cachedWebhookUrl, secretCalls, secretWebhookUrl>>

RecordWarning(p) ==
    /\ inv[p].pc = "recordWarning"
    /\ table' = recordMessageSent(table, "weather_warning", inv[p].location,
                                  inv[p].weatherCondition.temperature,
                                  inv[p].weatherCondition.condition, now)
    /\ inv' = [inv EXCEPT ![p] = [@ EXCEPT
            !.calls = Called(p, "recordMessageSent:weather_warning"),
            !.messageSent = TRUE,
            !.messageType = "weather_warning",
            !.pc = "cleanupOldRecords"]]
    /\ UNCHANGED <<now, delivered, rep, ops, confirmedWeeks, lastCall, cachedWebhookUrl, secretCalls, secretWebhookUrl>>

\* variant: the summary is returned without the cleanup call
Cleanup_Skipped(p) ==
    /\ inv[p].pc = "cleanupOldRecords"
    /\ table' = table
    /\ inv' = [inv EXCEPT ![p] = [@ EXCEPT
            !.pc = "done",
            !.response = [NoResponse EXCEPT
                !.statusCode = 200,
                !.keys = {"message", "location", "weather", "messagesSent",
                          "lunchConfirmed", "weeklyStats", "config"},
                !.message = "Weather check completed successfully",
                !.location = inv[p].location,
                !.weather = inv[p].weatherCondition,
                !.sent = inv[p].messageSent,
                !.type = inv[p].messageType,
                !.lunchConfirmed = FALSE,
                !.weeklyStats = inv[p].weeklyStats,
                !.webhookUrl = "[REDACTED]"]]]
    /\ UNCHANGED <<now, delivered, rep, ops, confirmedWeeks, lastCall, cachedWebhookUrl, secretCalls, secretWebhookUrl>>

\* variant: the summary carries the configuration as it is
Cleanup_Unredacted(p) ==
    /\ inv[p].pc = "cleanupOldRecords"
    /\ table' = cleanupOldRecords(table, CLEANUP_DAYS, now)
    /\ inv' = [inv EXCEPT ![p] = [@ EXCEPT
            !.calls = Called(p, "cleanupOldRecords"),
            !.pc = "done",
            !.response = [NoResponse EXCEPT
                !.statusCode = 200,
                !.keys = {"message", "location", "weather", "messagesSent",
                          "lunchConfirmed", "weeklyStats", "config"},
                !.message = "Weather check completed successfully",
                !.location = inv[p].location,
                !.weather = inv[p].weatherCondition,
                !.sent = inv[p].messageSent,
                !.type = inv[p].messageType,
                !.lunchConfirmed = FALSE,
                !.weeklyStats = inv[p].weeklyStats,
                !.webhookUrl = inv[p].slackWebhookUrl]]]
    /\ UNCHANGED <<now, delivered, rep, ops, confirmedWeeks, lastCall, cachedWebhookUrl, secretCalls, secretWebhookUrl>>

\* cleanupOldRecords(30), then the summary is returned
Cleanup(p) ==
    /\ inv[p].pc = "cleanupOldRecords"
    /\ table' = cleanupOldRecords(table, CLEANUP_DAYS, now)
    /\ inv' = [inv EXCEPT ![p] = [@ EXCEPT
            !.calls = Called(p, "cleanupOldRecords"),
            !.pc = "done",
            !.response = [NoResponse EXCEPT
                !.statusCode = 200,
                !.keys = {"message", "location", "weather", "messagesSent",
                          "lunchConfirmed", "weeklyStats", "config"},
                !.message = "Weather check completed successfully",
                !.location = inv[p].location,
                !.weather = inv[p].weatherCondition,
                !.sent = inv[p].messageSent,
                !.type = inv[p].messageType,
                !.lunchConfirmed = FALSE,
                !.weeklyStats = inv[p].weeklyStats,
                !.webhookUrl = "[REDACTED]"]]]
    /\ UNCHANGED <<now, delivered, rep, ops, confirmedWeeks, lastCall, cachedWebhookUrl, secretCalls, secretWebhookUrl>>

\* the result has been handed back to the caller
Return(p) ==
    /\ inv[p].pc = "done"
    /\ inv' = [inv EXCEPT ![p] = IdleInv]
    /\ UNCHANGED <<now, table, delivered, rep, ops, confirmedWeeks, lastCall, cachedWebhookUrl, secretCalls, secretWebhookUrl>>

\* the pending call rejects and the catch block answers 500; a cleanup that
\* fails may already have deleted some of the expired items
AwaitedCalls ==
    {"getConfig", "checkLunchConfirmed", "checkSentToday", "checkWeekly", "getWeeklyStats",
     "isWeatherGood", "sendWeatherReminder", "recordReminder", "isOptedInToWeatherWarnings",
     "canSendWarning", "alreadySentWarningToday", "sendWeatherWarning", "recordWarning",
     "cleanupOldRecords"}

\* variant: a rejected Notifier call is swallowed and the handler goes on to record
Reject_SwallowNotifier(p) ==
    /\ inv[p].pc \in AwaitedCalls
    /\ IF inv[p].pc = "cleanupOldRecords"
       THEN \E kept \in SUBSET table :
                /\ cleanupOldRecords(table, CLEANUP_DAYS, now) \subseteq kept
                /\ table' = kept
       ELSE table' = table
    /\ inv' = [inv EXCEPT ![p] = [@ EXCEPT
            !.failed = inv[p].pc,
            !.pc = IF inv[p].pc = "sendWeatherReminder" THEN "recordReminder"
                   ELSE IF inv[p].pc = "sendWeatherWarning" THEN "recordWarning"
                   ELSE "done",
            !.response = IF inv[p].pc \in {"sendWeatherReminder", "sendWeatherWarning"} THEN @
                         ELSE ErrorResponse(500, "Internal server error")]]
    /\ UNCHANGED <<now, delivered, rep, ops, confirmedWeeks, lastCall, cachedWebhookUrl, secretCalls, secretWebhookUrl>>

\* variant: a failed weather evaluation is taken for good weather and the handler goes on
Reject_WeatherFallback(p) ==
    /\ inv[p].pc \in AwaitedCalls
    /\ IF inv[p].pc = "cleanupOldRecords"
       THEN \E kept \in SUBSET table :
                /\ cleanupOldRecords(table, CLEANUP_DAYS, now) \subseteq kept
                /\ table' = kept
       ELSE table' = table
    /\ inv' = [inv EXCEPT ![p] = [@ EXCEPT
            !.failed = inv[p].pc,
            !.pc = IF inv[p].pc = "isWeatherGood" THEN "sendWeatherReminder" ELSE "done",
            !.response = IF inv[p].pc = "isWeatherGood" THEN @ ELSE ErrorResponse(500, "Internal server error")]]
    /\ UNCHANGED <<now, delivered, rep, ops, confirmedWeeks, lastCall, cachedWebhookUrl, secretCalls, secretWebhookUrl>>

\* variant: a record call that rejects has stored its item all the same
Reject_Written(p) ==
    /\ inv[p].pc \in AwaitedCalls
    /\ IF inv[p].pc = "cleanupOldRecords"
       THEN \E kept \in SUBSET table :
                /\ cleanupOldRecords(table, CLEANUP_DAYS, now) \subseteq kept
                /\ table' = kept
       ELSE IF inv[p].pc \in {"recordReminder", "recordWarning"}
       THEN table' = recordMessageSent(table,
                         IF inv[p].pc = "recordReminder" THEN "weather_reminder"
                                                         ELSE "weather_warning",
                         inv[p].location, inv[p].weatherCondition.temperature,
                         inv[p].weatherCondition.condition, now)
       ELSE table' = table
    /\ inv' = [inv EXCEPT ![p] = [@ EXCEPT
            !.failed = inv[p].pc,
            !.pc = "done",
            !.response = ErrorResponse(500, "Internal server error")]]
    /\ UNCHANGED <<now, delivered, rep, ops, confirmedWeeks, lastCall, cachedWebhookUrl, secretCalls, secretWebhookUrl>>

Reject(p) ==
    /\ inv[p].pc \in AwaitedCalls
    /\ IF inv[p].pc = "cleanupOldRecords"
       THEN \E kept \in SUBSET table :
                /\ cleanupOldRecords(table, CLEANUP_DAYS, now) \subseteq kept
                /\ table' = kept
       ELSE table' = table
    /\ inv' = [inv EXCEPT ![p] = [@ EXCEPT
            !.failed = inv[p].pc,
            !.pc = "done",
            !.response = ErrorResponse(500, "Internal server error")]]
    /\ UNCHANGED <<now, delivered, rep, ops, confirmedWeeks, lastCall, cachedWebhookUrl, secretCalls, secretWebhookUrl>>

\* -------------------------------------------------- reply handler steps
AllowedActions == {"confirm-lunch", "opt-in-warnings", "opt-out-warnings"}

NoReplyResponse ==
    [statusCode |-> 0, keys |-> {}, message |-> "", error |-> "", action |-> "",
     location |-> "", weekStart |-> {}, confirmed |-> FALSE, alreadyConfirmed |-> FALSE,
     optedIn |-> {}, webhookUrl |-> ""]

\* 'request' is the event the invocation was started with
NoRequest ==
    [httpMethod |-> "", headers |-> [h \in {"User-Agent", "user-agent"} |-> {}],
     payload |-> [kind |-> "none", action |-> {}, location |-> {}, date |-> {}]]

IdleRep ==
    [pc |-> "idle", action |-> "", location |-> "", date |-> {}, weekStart |-> {},
     request |-> NoRequest, slackWebhookUrl |-> "", startTable |-> {}, calls |-> <<>>,
     failed |-> "", response |-> NoReplyResponse]

\* the body (POST) or query string (GET) of a request: absent, not JSON, or
\* an object with optional action, location and date
Payloads(t, locations) ==
    {[kind |-> "none", action |-> {}, location |-> {}, date |-> {}],
     [kind |-> "invalid", action |-> {}, location |-> {}, date |-> {}]}
    \cup {[kind |-> "data", action |-> a, location |-> l, date |-> d] :
            a \in {{}, {"confirm-lunch"}, {"opt-in-warnings"}, {"opt-out-warnings"}, {"bogus"}},
            l \in locations,
            d \in {{}, {Today(t)}}}

\* the value of a request header: absent, a browser's, or the link preview bot's
HeaderValues == {{}, {"Mozilla/5.0"}, {"Slackbot-LinkExpanding 1.0"}}

HeaderNames == {"User-Agent", "user-agent"}

ReplyRequests(t, locations) ==
    {r \in [httpMethod : {"GET", "POST", "OPTIONS", "PUT"},
            headers : [HeaderNames -> HeaderValues],
            payload : Payloads(t, locations)] :
        r.payload.kind = "invalid" => r.httpMethod = "POST"}

\* event.headers?.['User-Agent'] || event.headers?.['user-agent'] || ''
UserAgentOf(headers) ==
    IF headers["User-Agent"] # {} THEN CHOOSE v \in headers["User-Agent"] : TRUE
    ELSE IF headers["user-agent"] # {} THEN CHOOSE v \in headers["user-agent"] : TRUE
    ELSE ""

\* GET requests without a user agent: the links of a Slack message, opened
\* by a client that sends no such header
LinkRequests(t, locations) ==
    {r \in ReplyRequests(t, locations) :
        /\ r.httpMethod = "GET"
        /\ r.headers = [h \in HeaderNames |-> {}]}

\* userAgent.includes('Slackbot-LinkExpanding')
IsLinkExpandingBot(userAgent) == userAgent = "Slackbot-LinkExpanding 1.0"

\* variant: the schema accepts any action
ReplySchemaAccepts_Any(payload) == TRUE

\* replyRequestSchema.safeParse(requestData).success
ReplySchemaAccepts(payload) == payload.action \subseteq AllowedActions

\* action: z.enum([...]).default('confirm-lunch')
ParsedAction(payload) ==
    IF payload.action = {} THEN "confirm-lunch" ELSE CHOOSE a \in payload.action : TRUE

\* customLocation || coordinates.locationName
ReplyLocation(payload) ==
    IF payload.location = {} \/ payload.location = {""} THEN DefaultLocation
    ELSE CHOOSE l \in payload.location : TRUE

ReplyResult(status, keys, message, error) ==
    [NoReplyResponse EXCEPT !.statusCode = status, !.keys = keys,
                            !.message = message, !.error = error]

\* variant: the HTTP method is not checked
RStart_AnyMethod(q, req) ==
    /\ rep[q].pc = "idle"
    /\ ops' = ops + 1
    /\ LET finish(r) == rep' = [rep EXCEPT ![q] = [@ EXCEPT
                            !.pc = "done", !.request = req, !.startTable = table,
                            !.response = r]]
       IN  IF IsLinkExpandingBot(UserAgentOf(req.headers))
           THEN finish(ReplyResult(200, {"message"}, "Bot request blocked", ""))
           ELSE IF req.httpMethod = "OPTIONS"
           THEN finish(ReplyResult(200, {"message"}, "CORS preflight successful", ""))
           ELSE IF FALSE
           THEN finish(ReplyResult(405, {"error", "allowedMethods"}, "", "Method not allowed"))
           ELSE IF req.httpMethod = "POST" /\ req.payload.kind = "invalid"
           THEN finish(ReplyResult(400, {"error", "details"}, "", "Invalid JSON in request body"))
           ELSE IF ~ReplySchemaAccepts(req.payload)
           THEN finish(ReplyResult(400, {"error", "details", "allowedActions"}, "",
                                   "Invalid request parameters"))
           ELSE rep' = [rep EXCEPT ![q] = [@ EXCEPT
                            !.pc = "getConfig",
                            !.request = req,
                            !.startTable = table,
                            !.action = ParsedAction(req.payload),
                            !.location = ReplyLocation(req.payload),
                            !.date = req.payload.date]]
    /\ UNCHANGED <<now, table, delivered, inv, confirmedWeeks, lastCall, cachedWebhookUrl, secretCalls, secretWebhookUrl>>

\* everything the handler does before its first await
RStart(q, req) ==
    /\ rep[q].pc = "idle"
    /\ ops' = ops + 1
    /\ LET finish(r) == rep' = [rep EXCEPT ![q] = [@ EXCEPT
                            !.pc = "done", !.request = req, !.startTable = table,
                            !.response = r]]
       IN  IF IsLinkExpandingBot(UserAgentOf(req.headers))
           THEN finish(ReplyResult(200, {"message"}, "Bot request blocked", ""))
           ELSE IF req.httpMethod = "OPTIONS"
           THEN finish(ReplyResult(200, {"message"}, "CORS preflight successful", ""))
           ELSE IF req.httpMethod \notin {"POST", "GET"}
           THEN finish(ReplyResult(405, {"error", "allowedMethods"}, "", "Method not allowed"))
           ELSE IF req.httpMethod = "POST" /\ req.payload.kind = "invalid"
           THEN finish(ReplyResult(400, {"error", "details"}, "", "Invalid JSON in request body"))
           ELSE IF ~ReplySchemaAccepts(req.payload)
           THEN finish(ReplyResult(400, {"error", "details", "allowedActions"}, "",
                                   "Invalid request parameters"))
           ELSE rep' = [rep EXCEPT ![q] = [@ EXCEPT
                            !.pc = "getConfig",
                            !.request = req,
                            !.startTable = table,
                            !.action = ParsedAction(req.payload),
                            !.location = ReplyLocation(req.payload),
                            !.date = req.payload.date]]
    /\ UNCHANGED <<now, table, delivered, inv, confirmedWeeks, lastCall, cachedWebhookUrl, secretCalls, secretWebhookUrl>>

RGetConfig(q) ==
    /\ rep[q].pc = "getConfig"
    /\ rep' = [rep EXCEPT ![q] = [@ EXCEPT
            !.calls = Append(@, "getSecretValue"),
            !.slackWebhookUrl = secretWebhookUrl,
            !.pc = IF rep[q].action = "confirm-lunch" THEN "hasLunchBeenConfirmedForWeek"
                   ELSE "setWeatherWarningOptInStatus"]]
    /\ UNCHANGED <<now, table, delivered, inv, ops, confirmedWeeks, lastCall, cachedWebhookUrl, secretCalls, secretWebhookUrl>>

\* variant: the existing confirmation is read but the request goes on to record
RCheckConfirmed_NoExit(q) ==
    /\ rep[q].pc = "hasLunchBeenConfirmedForWeek"
    /\ LET weekStart == IF rep[q].date = {} THEN getWeekStart(now)
                        ELSE CHOOSE d \in rep[q].date : TRUE
           alreadyConfirmed == hasLunchBeenConfirmedForWeek(table, rep[q].location, weekStart)
       IN  /\ rep' = [rep EXCEPT ![q] = [@ EXCEPT
               !.calls = Append(@, "hasLunchBeenConfirmedForWeek"),
               !.weekStart = {weekStart},
               !.pc = "recordLunchConfirmation",
               !.response =
                   IF FALSE /\ alreadyConfirmed
                   THEN [NoReplyResponse EXCEPT
                           !.statusCode = 200,
                           !.keys = {"message", "location", "weekStart", "alreadyConfirmed", "config"},
                           !.message = "Lunch already confirmed for this week! No more weather reminders will be sent.",
                           !.location = rep[q].location,
                           !.weekStart = {weekStart},
                           !.alreadyConfirmed = TRUE,
                           !.webhookUrl = "[REDACTED]"]
                   ELSE @]]
           /\ confirmedWeeks' =
                  IF alreadyConfirmed /\ rep[q].date = {}
                  THEN confirmedWeeks \cup {<<rep[q].location, now \div 7>>}
                  ELSE confirmedWeeks
    /\ UNCHANGED <<now, table, delivered, inv, ops, lastCall, cachedWebhookUrl, secretCalls, secretWebhookUrl>>

RCheckConfirmed(q) ==
    /\ rep[q].pc = "hasLunchBeenConfirmedForWeek"
    /\ LET weekStart == IF rep[q].date = {} THEN getWeekStart(now)
                        ELSE CHOOSE d \in rep[q].date : TRUE
           alreadyConfirmed == hasLunchBeenConfirmedForWeek(table, rep[q].location, weekStart)
       IN  /\ rep' = [rep EXCEPT ![q] = [@ EXCEPT
               !.calls = Append(@, "hasLunchBeenConfirmedForWeek"),
               !.weekStart = {weekStart},
               !.pc = IF alreadyConfirmed THEN "done" ELSE "recordLunchConfirmation",
               !.response =
                   IF alreadyConfirmed
                   THEN [NoReplyResponse EXCEPT
                           !.statusCode = 200,
                           !.keys = {"message", "location", "weekStart", "alreadyConfirmed", "config"},
                           !.message = "Lunch already confirmed for this week! No more weather reminders will be sent.",
                           !.location = rep[q].location,
                           !.weekStart = {weekStart},
                           !.alreadyConfirmed = TRUE,
                           !.webhookUrl = "[REDACTED]"]
                   ELSE @]]
           /\ confirmedWeeks' =
                  IF alreadyConfirmed /\ rep[q].date = {}
                  THEN confirmedWeeks \cup {<<rep[q].location, now \div 7>>}
                  ELSE confirmedWeeks
    /\ UNCHANGED <<now, table, delivered, inv, ops, lastCall, cachedWebhookUrl, secretCalls, secretWebhookUrl>>

RRecordConfirmation(q) ==
    /\ rep[q].pc = "recordLunchConfirmation"
    /\ LET weekStart == CHOOSE w \in rep[q].weekStart : TRUE
       IN  /\ table' = recordLunchConfirmation(table, rep[q].location, weekStart, now)
           /\ rep' = [rep EXCEPT ![q] = [@ EXCEPT
                   !.calls = Append(@, "recordLunchConfirmation"),
                   !.pc = "done",
                   !.response = [NoReplyResponse EXCEPT
                       !.statusCode = 200,
                       !.keys = {"message", "action", "location", "weekStart", "confirmed", "config"},
                       !.message = "Thanks for confirming! Lunch confirmed for this week. No more weather reminders will be sent.",
                       !.action = rep[q].action,
                       !.location = rep[q].location,
                       !.weekStart = {weekStart},
                       !.confirmed = TRUE,
                       !.webhookUrl = "[REDACTED]"]]]
    /\ confirmedWeeks' =
           IF rep[q].date = {} THEN confirmedWeeks \cup {<<rep[q].location, now \div 7>>}
           ELSE confirmedWeeks
    /\ UNCHANGED <<now, delivered, inv, ops, lastCall, cachedWebhookUrl, secretCalls, secretWebhookUrl>>

\* variant: opt-out stores the same value as opt-in
RSetOptIn_StoresTrue(q) ==
    /\ rep[q].pc = "setWeatherWarningOptInStatus"
    /\ LET optedIn == rep[q].action = "opt-in-warnings"
       IN  /\ table' = setWeatherWarningOptInStatus(table, rep[q].location, TRUE, now)
           /\ rep' = [rep EXCEPT ![q] = [@ EXCEPT
                   !.calls = Append(@, "setWeatherWarningOptInStatus"),
                   !.pc = "done",
                   !.response = [NoReplyResponse EXCEPT
                       !.statusCode = 200,
                       !.keys = {"message", "action", "location", "optedIn", "config"},
                       !.message = IF optedIn THEN "Successfully opted in to weather warnings."
                                   ELSE "Successfully opted out of weather warnings.",
                       !.action = rep[q].action,
                       !.location = rep[q].location,
                       !.optedIn = {optedIn},
                       !.webhookUrl = "[REDACTED]"]]]
    /\ UNCHANGED <<now, delivered, inv, ops, confirmedWeeks, lastCall, cachedWebhookUrl, secretCalls, secretWebhookUrl>>

RSetOptIn(q) ==
    /\ rep[q].pc = "setWeatherWarningOptInStatus"
    /\ LET optedIn == rep[q].action = "opt-in-warnings"
       IN  /\ table' = setWeatherWarningOptInStatus(table, rep[q].location, optedIn, now)
           /\ rep' = [rep EXCEPT ![q] = [@ EXCEPT
                   !.calls = Append(@, "setWeatherWarningOptInStatus"),
                   !.pc = "done",
                   !.response = [NoReplyResponse EXCEPT
                       !.statusCode = 200,
                       !.keys = {"message", "action", "location", "optedIn", "config"},
                       !.message = IF optedIn THEN "Successfully opted in to weather warnings."
                                   ELSE "Successfully opted out of weather warnings.",
                       !.action = rep[q].action,
                       !.location = rep[q].location,
                       !.optedIn = {optedIn},
                       !.webhookUrl = "[REDACTED]"]]]
    /\ UNCHANGED <<now, delivered, inv, ops, confirmedWeeks, lastCall, cachedWebhookUrl, secretCalls, secretWebhookUrl>>

RReturn(q) ==
    /\ rep[q].pc = "done"
    /\ rep' = [rep EXCEPT ![q] = IdleRep]
    /\ UNCHANGED <<now, table, delivered, inv, ops, confirmedWeeks, lastCall, cachedWebhookUrl, secretCalls, secretWebhookUrl>>

RAwaitedCalls ==
    {"getConfig", "hasLunchBeenConfirmedForWeek", "recordLunchConfirmation",
     "setWeatherWarningOptInStatus"}

RReject(q) ==
    /\ rep[q].pc \in RAwaitedCalls
    /\ rep' = [rep EXCEPT ![q] = [@ EXCEPT
            !.failed = rep[q].pc,
            !.pc = "done",
            !.response = ReplyResult(500, {"error", "message"}, "", "Internal server error")]]
    /\ UNCHANGED <<now, table, delivered, inv, ops, confirmedWeeks, lastCall, cachedWebhookUrl, secretCalls, secretWebhookUrl>>

\* ------------------------------------------------------------ the clock
\* to the next day, to the next Monday, or past the retention window
TickSteps(t) == {1, 7 - (t % 7), CLEANUP_DAYS + 1}

Tick(d) ==
    /\ ops' = ops + 1
    /\ now' = now + d
    /\ UNCHANGED <<table, delivered, inv, rep, confirmedWeeks, lastCall, cachedWebhookUrl, secretCalls, secretWebhookUrl>>

\* ------------------------------------------- direct storage service calls
\* the verdicts a caller may pass on to recordMessageSent: a good and a bad one
Verdicts ==
    {isWeatherGood(forecast, MIN_TEMPERATURE, GoodWeatherConditions, BadWeatherConditions) :
        forecast \in {f \in Forecasts : f.tenths > 10 * MIN_TEMPERATURE + 4 \/ f.weathercode > 3}}

NoCall ==
    [op |-> "", messageType |-> "", location |-> "", temperature |-> {},
     weatherCondition |-> {}, at |-> 0, before |-> {}, result |-> FALSE]

DirectRecordMessageSent(messageType, location, verdict) ==
    /\ ops' = ops + 1
    /\ table' = recordMessageSent(table, messageType, location,
                                  verdict.temperature, verdict.condition, now)
    /\ lastCall' = [NoCall EXCEPT !.op = "recordMessageSent",
                                  !.messageType = messageType,
                                  !.location = location,
                                  !.temperature = {verdict.temperature},
                                  !.weatherCondition = {verdict.condition},
                                  !.at = now,
                                  !.before = table]
    /\ UNCHANGED <<now, delivered, inv, rep, confirmedWeeks, cachedWebhookUrl, secretCalls, secretWebhookUrl>>

DirectCanSendMessageThisWeek(location, messageType) ==
    /\ lastCall' = [NoCall EXCEPT !.op = "canSendMessageThisWeek",
                                  !.messageType = messageType,
                                  !.location = location,
                                  !.at = now,
                                  !.result = canSendMessageThisWeek(table, location, messageType, now)]
    /\ UNCHANGED <<now, table, delivered, inv, rep, ops, confirmedWeeks, cachedWebhookUrl, secretCalls, secretWebhookUrl>>

\* recordLunchConfirmation(location, specificWeekStart?)
DirectRecordLunchConfirmation(location, weekStart) ==
    /\ ops' = ops + 1
    /\ table' = recordLunchConfirmation(table, location, weekStart, now)
    /\ lastCall' = [op |-> "recordLunchConfirmation", location |-> location,
                    weekStart |-> weekStart, at |-> now, before |-> table]
    /\ UNCHANGED <<now, delivered, inv, rep, confirmedWeeks, cachedWebhookUrl, secretCalls, secretWebhookUrl>>

DirectCleanupOldRecords(daysToKeep) ==
    /\ ops' = ops + 1
    /\ table' = cleanupOldRecords(table, daysToKeep, now)
    /\ lastCall' = [op |-> "cleanupOldRecords", daysToKeep |-> daysToKeep,
                    at |-> now, before |-> table]
    /\ UNCHANGED <<now, delivered, inv, rep, confirmedWeeks, cachedWebhookUrl, secretCalls, secretWebhookUrl>>

\* ------------------------------------- storage calls the table rejects
\* the methods of DynamoDBStorageService
StorageMethods ==
    {"hasMessageBeenSentToday", "getWeeklyMessageStats", "canSendMessageThisWeek",
     "recordMessageSent", "getMessageHistory", "cleanupOldRecords",
     "recordLunchConfirmation", "hasLunchBeenConfirmedThisWeek"}

\* the message of the Error each catch block throws; canSendMessageThisWeek
\* has no catch block of its own and passes on what getWeeklyMessageStats throws
CatchMessage(method) ==
    CASE method = "hasMessageBeenSentToday" -> "Failed to check message status"
      [] method = "getWeeklyMessageStats" -> "Failed to get weekly message stats"
      [] method = "canSendMessageThisWeek" -> "Failed to get weekly message stats"
      [] method = "recordMessageSent" -> "Failed to record message"
      [] method = "getMessageHistory" -> "Failed to get message history"
      [] method = "cleanupOldRecords" -> "Failed to cleanup old records"
      [] method = "recordLunchConfirmation" -> "Failed to record lunch confirmation"
      [] method = "hasLunchBeenConfirmedThisWeek" -> "Failed to check lunch confirmation"

\* the command a method hands to client.send first
FirstCommand(method, location, messageType, t) ==
    CASE method = "hasMessageBeenSentToday" ->
            [command |-> "Query", key |-> RecordId(location, messageType, {Today(t)})]
      [] method = "recordMessageSent" ->
            [command |-> "PutItem", key |-> RecordId(location, messageType, {Today(t)})]
      [] method = "recordLunchConfirmation" ->
            [command |-> "PutItem",
             key |-> RecordId(location, "lunch_confirmation", {getWeekStart(t)})]
      [] method = "hasLunchBeenConfirmedThisWeek" ->
            [command |-> "Query",
             key |-> RecordId(location, "lunch_confirmation", {getWeekStart(t)})]
      [] OTHER -> [command |-> "Scan", key |-> <<>>]

\* variant: the catch block logs the error and returns a default value
Caught_Default(method, sends) ==
    [threw |-> FALSE, error |-> "", returned |-> {FALSE}, sends |-> sends]

\* the catch block of a method after the commands 'sends' were handed to the
\* client and one of them was rejected: it throws, nothing is returned
Caught(method, sends) ==
    [threw |-> TRUE, error |-> CatchMessage(method), returned |-> {}, sends |-> sends]

\* a client calls a method and the table rejects its first command
DirectRejectedCall(method, location, messageType) ==
    /\ ops' = ops + 1
    /\ lastCall' = [op |-> method, location |-> location, messageType |-> messageType,
                    at |-> now, before |-> table,
                    outcome |-> Caught(method,
                                   SetToBag({FirstCommand(method, location, messageType, now)}))]
    /\ UNCHANGED <<now, table, delivered, inv, rep, confirmedWeeks, cachedWebhookUrl,
                   secretCalls, secretWebhookUrl>>

\* a client calls cleanupOldRecords, the scan finds items and the table
\* rejects the DeleteItem of 'failed': every delete has been sent by then
\* (Promise.all over the mapped sends) and any of the others may have gone through
DirectRejectedDelete(daysToKeep, failed) ==
    LET hits == table \ cleanupOldRecords(table, daysToKeep, now) IN
    /\ failed \in hits
    /\ ops' = ops + 1
    /\ \E deleted \in SUBSET (hits \ {failed}) : table' = table \ deleted
    /\ lastCall' = [op |-> "cleanupOldRecords", location |-> "", messageType |-> "",
                    at |-> now, before |-> table,
                    outcome |-> Caught("cleanupOldRecords",
                                   SetToBag({[command |-> "Scan", key |-> <<>>]}
                                            \cup {[command |-> "DeleteItem", key |-> r.id] : r \in hits}))]
    /\ UNCHANGED <<now, delivered, inv, rep, confirmedWeeks, cachedWebhookUrl,
                   secretCalls, secretWebhookUrl>>

\* ------------------------------------------------------- specification
\* the deployment starts on a Monday with an empty table, or with the opt-in
\* a team member stored that morning
InitialTables == {{}, setWeatherWarningOptInStatus({}, DefaultLocation, TRUE, 0)}

Init ==
    /\ now = 0
    /\ table \in InitialTables
    /\ delivered = EmptyBag
    /\ inv = [p \in Procs |-> IdleInv]
    /\ rep = [q \in Procs |-> IdleRep]
    /\ ops = 0
    /\ confirmedWeeks = {}
    /\ lastCall = NoCall
    /\ cachedWebhookUrl = {}
    /\ secretCalls = <<>>
    /\ secretWebhookUrl = SecretUrl

\* no handler is running
Quiet == (\A p \in Procs : inv[p].pc = "idle") /\ (\A q \in Procs : rep[q].pc = "idle")

WeatherCheckStep(p) ==
    \/ GetConfig(p)
    \/ CheckLunchConfirmed(p)
    \/ CheckSentToday(p)
    \/ CheckWeekly(p)
    \/ GetWeeklyStats(p)
    \/ \E forecast \in Forecasts : EvaluateWeather(p, forecast)
    \/ SendReminder(p)
    \/ RecordReminder(p)
    \/ CheckOptIn(p)
    \/ CheckWarningWeekly(p)
    \/ CheckWarningToday(p)
    \/ SendWarning(p)
    \/ RecordWarning(p)
    \/ Cleanup(p)
    \/ Return(p)

ReplyStep(q) ==
    \/ RGetConfig(q)
    \/ RCheckConfirmed(q)
    \/ RRecordConfirmation(q)
    \/ RSetOptIn(q)
    \/ RReturn(q)

\* invocations never overlap, the clock advances between them; 'budget' bounds
\* the operations, 'overrides' and 'locations' are the location names events
\* and requests may carry
Sequential(budget, overrides, locations) ==
    \/ \E event \in Events(overrides) : Quiet /\ ops < budget /\ Start(1, event)
    \/ WeatherCheckStep(1)
    \/ \E req \in LinkRequests(now, locations) : Quiet /\ ops < budget /\ RStart(1, req)
    \/ ReplyStep(1)
    \/ \E d \in TickSteps(now) : Quiet /\ ops < budget /\ Tick(d)

\* one location, every collaborator call succeeds
Next == Sequential(MaxOps, {{}}, {{}})

Spec == Init /\ [][Next]_vars

\* one location, any awaited call may reject
NextErr ==
    \/ Sequential(MaxErrOps, {{}}, {{}})
    \/ Reject(1)
    \/ RReject(1)

SpecErr == Init /\ [][NextErr]_vars

\* two locations, every collaborator call succeeds
NextLoc == Sequential(MaxLocOps, {{}, {"Berlin"}}, {{}, {"Berlin"}})

SpecLoc == Init /\ [][NextLoc]_vars

\* week starts a client may confirm: the current week, or a week five weeks on
WeekStartsFrom(t) == {getWeekStart(t), getWeekStart(t) + 35}

\* a client that records messages and confirmations, prunes, and lets days pass
NextPrune ==
    \/ \E messageType \in MessageTypes, location \in Locations, verdict \in Verdicts :
          ops < MaxPruneOps /\ DirectRecordMessageSent(messageType, location, verdict)
    \/ \E location \in Locations, weekStart \in WeekStartsFrom(now) :
          ops < MaxPruneOps /\ DirectRecordLunchConfirmation(location, weekStart)
    \/ \E daysToKeep \in {1, CLEANUP_DAYS} :
          ops < MaxPruneOps /\ DirectCleanupOldRecords(daysToKeep)
    \/ \E d \in TickSteps(now) : ops < MaxPruneOps /\ Tick(d)

SpecPrune == Init /\ [][NextPrune]_vars

\* ------------------------------------------- direct weather service calls
\* hourly points around the rounding and threshold boundaries, with a code of
\* each kind, and the case that the API has no point for the hour
WeatherPoints ==
    [found : {TRUE}, tenths : {-6, 4, 5, 144, 145, 154}, weathercode : {0, 45, 61, 100}]
    \cup {NoForecast}

\* config.minTemperature, goodWeatherConditions, badWeatherConditions
MinTemperatures == {0, MIN_TEMPERATURE, MIN_TEMPERATURE + 1}
ConditionSets == SUBSET {"clear", "clouds", "unknown"}

\* a WeatherService built with the given configuration evaluates the point
\* the API returned; each behaviour holds one such evaluation
DirectIsWeatherGood(forecast, minTemperature, good, bad) ==
    /\ lastCall = NoCall
    /\ lastCall' = [op |-> "isWeatherGood", forecast |-> forecast,
                    minTemperature |-> minTemperature, good |-> good, bad |-> bad,
                    verdict |-> isWeatherGood(forecast, minTemperature, good, bad)]
    /\ UNCHANGED <<now, table, delivered, inv, rep, ops, confirmedWeeks, cachedWebhookUrl, secretCalls, secretWebhookUrl>>

NextWeather ==
    \E forecast \in WeatherPoints, minTemperature \in MinTemperatures,
       good \in ConditionSets, bad \in ConditionSets :
        DirectIsWeatherGood(forecast, minTemperature, good, bad)

SpecWeather == Init /\ [][NextWeather]_vars

\* ------------------------------------------------ configuration loading
\* what getSecretValue does: it rejects, or resolves with a secret whose
\* webhook_url is a string ({""} or {SecretUrl}) or is none ({})
SecretValues ==
    {[ok |-> FALSE, webhook_url |-> {}]}
    \cup [ok : {TRUE}, webhook_url : {{}, {""}, {SecretUrl}}]

\* eventOverrides: every field is optional, {} when not provided
NoOverrides ==
    [locationName |-> {}, locationLat |-> {}, locationLon |-> {}, minTemperature |-> {},
     weatherCheckHour |-> {}, goodWeatherConditions |-> {}, badWeatherConditions |-> {},
     slackWebhookUrl |-> {}]

\* values that eventOverridesSchema accepts
EventOverrides ==
    [locationName : {{}, {""}, {"Berlin"}},
     locationLat : {{}, {0}, {52}},
     locationLon : {{}, {0}, {13}},
     minTemperature : {{}, {0}, {15}},
     weatherCheckHour : {{}, {0}, {14}},
     goodWeatherConditions : {{}, {{}}, {{"clear"}}},
     badWeatherConditions : {{}, {{}}, {{"rain"}}},
     slackWebhookUrl : {{}, {OverrideUrl}}]

\* overrides that differ in the webhook URL only
UrlOverrides == {o \in EventOverrides : \E u \in {{}, {OverrideUrl}} : o = [NoOverrides EXCEPT !.slackWebhookUrl = u]}

\* JavaScript's a || b on an optional number, string and array: 0 and '' are
\* falsy, an array never is
OrNumber(a, b) == IF a = {} \/ a = {0} THEN b ELSE CHOOSE v \in a : TRUE
OrString(a, b) == IF a = {} \/ a = {""} THEN b ELSE CHOOSE v \in a : TRUE
OrArray(a, b) == IF a = {} THEN b ELSE CHOOSE v \in a : TRUE

\* variant: the fetched URL is returned but not kept
getWebhookUrl_NoCache(cached, secretValue) ==
    IF cached # {} /\ cached # {""}
    THEN [called |-> FALSE, threw |-> FALSE, url |-> CHOOSE u \in cached : TRUE,
          cached |-> cached]
    ELSE IF ~secretValue.ok \/ secretValue.webhook_url = {}
    THEN [called |-> TRUE, threw |-> TRUE, url |-> "", cached |-> cached]
    ELSE [called |-> TRUE, threw |-> FALSE,
          url |-> CHOOSE u \in secretValue.webhook_url : TRUE,
          cached |-> cached]

\* getWebhookUrl on the cache 'cached' when getSecretValue would answer
\* 'secretValue': whether it called the secret, whether it threw, the URL it
\* returned and the cache it left
getWebhookUrl(cached, secretValue) ==
    IF cached # {} /\ cached # {""}
    THEN [called |-> FALSE, threw |-> FALSE, url |-> CHOOSE u \in cached : TRUE,
          cached |-> cached]
    ELSE IF ~secretValue.ok \/ secretValue.webhook_url = {}
    THEN [called |-> TRUE, threw |-> TRUE, url |-> "", cached |-> cached]
    ELSE [called |-> TRUE, threw |-> FALSE,
          url |-> CHOOSE u \in secretValue.webhook_url : TRUE,
          cached |-> secretValue.webhook_url]

\* the object getConfig returns, given the webhook URL it resolved
ConfigOf(eventOverrides, slackWebhookUrl) ==
    [badWeatherConditions |-> OrArray(eventOverrides.badWeatherConditions, BadWeatherConditions),
     goodWeatherConditions |-> OrArray(eventOverrides.goodWeatherConditions, GoodWeatherConditions),
     locationLat |-> OrNumber(eventOverrides.locationLat, LOCATION_LAT),
     locationLon |-> OrNumber(eventOverrides.locationLon, LOCATION_LON),
     locationName |-> getCoordinates(eventOverrides.locationName),
     minTemperature |-> OrNumber(eventOverrides.minTemperature, MIN_TEMPERATURE),
     slackWebhookUrl |-> slackWebhookUrl,
     weatherCheckHour |-> OrNumber(eventOverrides.weatherCheckHour, NOON_HOUR)]

\* getConfig: the override URL or else getWebhookUrl, then the object
getConfig(eventOverrides, cached, secretValue) ==
    LET resolved ==
            IF eventOverrides.slackWebhookUrl # {}
            THEN [called |-> FALSE, threw |-> FALSE,
                  url |-> CHOOSE u \in eventOverrides.slackWebhookUrl : TRUE,
                  cached |-> cached]
            ELSE getWebhookUrl(cached, secretValue)
    IN  [called |-> resolved.called, threw |-> resolved.threw, cached |-> resolved.cached,
         config |-> IF resolved.threw THEN {}
                    ELSE {ConfigOf(eventOverrides, resolved.url)}]

\* a client calls getConfig(eventOverrides) while the secret holds secretValue
DirectGetConfig(eventOverrides, secretValue) ==
    LET loaded == getConfig(eventOverrides, cachedWebhookUrl, secretValue) IN
    /\ ops' = ops + 1
    /\ cachedWebhookUrl' = loaded.cached
    /\ secretCalls' = IF loaded.called THEN Append(secretCalls, secretValue) ELSE secretCalls
    /\ lastCall' = [op |-> "getConfig", eventOverrides |-> eventOverrides,
                    before |-> cachedWebhookUrl, called |-> loaded.called,
                    threw |-> loaded.threw, config |-> loaded.config]
    /\ UNCHANGED <<now, table, delivered, inv, rep, confirmedWeeks, secretWebhookUrl>>

\* a client calls clearCache()
DirectClearCache ==
    /\ ops' = ops + 1
    /\ cachedWebhookUrl' = {}
    /\ secretCalls' = <<>>
    /\ lastCall' = [op |-> "clearCache", before |-> cachedWebhookUrl]
    /\ UNCHANGED <<now, table, delivered, inv, rep, confirmedWeeks, secretWebhookUrl>>

\* one configuration load in a fresh process, with any overrides
NextConfig ==
    \E eventOverrides \in EventOverrides, secretValue \in SecretValues :
        ops = 0 /\ DirectGetConfig(eventOverrides, secretValue)

SpecConfig == Init /\ [][NextConfig]_vars

\* a process that loads its configuration again and again and clears its cache
NextCache ==
    \/ \E eventOverrides \in UrlOverrides, secretValue \in SecretValues :
          ops < MaxCacheOps /\ DirectGetConfig(eventOverrides, secretValue)
    \/ ops < MaxCacheOps /\ DirectClearCache

SpecCache == Init /\ [][NextCache]_vars

\* reply requests only, with every combination of the two header spellings
NextReq ==
    \/ \E req \in ReplyRequests(now, {{}}) : Quiet /\ ops < MaxReqOps /\ RStart(1, req)
    \/ ReplyStep(1)
    \/ \E d \in TickSteps(now) : Quiet /\ ops < MaxReqOps /\ Tick(d)

SpecReq == Init /\ [][NextReq]_vars

\* confirm-lunch requests for the default location and the current week
ConfirmRequests(t) ==
    {r \in ReplyRequests(t, {{}}) :
        /\ r.httpMethod = "GET"
        /\ r.headers = [h \in HeaderNames |-> {}]
        /\ r.payload.kind = "data"
        /\ r.payload.action = {"confirm-lunch"}
        /\ r.payload.date = {}}

ConfirmStep(q) ==
    \/ RGetConfig(q)
    \/ RCheckConfirmed(q)
    \/ RRecordConfirmation(q)
    \/ RReturn(q)

\* weather-check invocations and confirm-lunch requests overlap: each runs on
\* its own Lambda instance and their awaited calls interleave freely; the
\* clock advances while no handler is running
NextConc ==
    \/ \E p \in Procs, event \in Events({{}}) :
          event.valid /\ ops < MaxConcOps /\ Start(p, event)
    \/ \E p \in Procs : WeatherCheckStep(p)
    \/ \E q \in Procs, req \in ConfirmRequests(now) : ops < MaxConcOps /\ RStart(q, req)
    \/ \E q \in Procs : ConfirmStep(q)
    \/ \E d \in TickSteps(now) : Quiet /\ ops < MaxConcOps /\ Tick(d)

SpecConc == Init /\ [][NextConc]_vars

\* the environment of a second run is made that of the first: the table is
\* put back to what the first run found, and the secret holds 'url'
Replay(url) ==
    /\ inv[2].pc = "idle" /\ rep[2].pc = "idle"
    /\ \/ inv[1].pc = "done" /\ rep[1].pc = "idle" /\ table' = inv[1].startTable
       \/ rep[1].pc = "done" /\ inv[1].pc = "idle" /\ table' = rep[1].startTable
    /\ secretWebhookUrl' = url
    /\ UNCHANGED <<now, delivered, inv, rep, ops, confirmedWeeks, lastCall, cachedWebhookUrl,
                   secretCalls>>

\* a handler runs on process 1, then again on process 2 while the answer of
\* the first run is still at hand; the webhook URL comes from the secret or
\* from the event, and any awaited call may reject
NextSecret ==
    \/ \E event \in UrlEvents : Quiet /\ ops < MaxSecretOps /\ Start(1, event)
    \/ \E event \in UrlEvents :
          inv[1].pc = "done" /\ rep[2].pc = "idle" /\ ops < MaxSecretOps /\ Start(2, event)
    \/ \E p \in Procs : WeatherCheckStep(p)
    \/ \E p \in Procs : Reject(p)
    \/ \E req \in LinkRequests(now, {{}}) : Quiet /\ ops < MaxSecretOps /\ RStart(1, req)
    \/ \E req \in LinkRequests(now, {{}}) :
          rep[1].pc = "done" /\ inv[2].pc = "idle" /\ ops < MaxSecretOps /\ RStart(2, req)
    \/ \E q \in Procs : ReplyStep(q)
    \/ \E q \in Procs : RReject(q)
    \/ \E url \in {SecretUrl, RotatedUrl} : Replay(url)

SpecSecret == Init /\ [][NextSecret]_vars

\* a storage client whose table rejects commands now and then, the clock
\* advancing between calls
NextFail ==
    \/ \E messageType \in MessageTypes, location \in Locations, verdict \in Verdicts :
          ops < MaxFailOps /\ DirectRecordMessageSent(messageType, location, verdict)
    \/ \E method \in StorageMethods, location \in Locations, messageType \in MessageTypes :
          ops < MaxFailOps /\ DirectRejectedCall(method, location, messageType)
    \/ \E daysToKeep \in {1, CLEANUP_DAYS}, failed \in table :
          ops < MaxFailOps /\ DirectRejectedDelete(daysToKeep, failed)
    \/ \E d \in TickSteps(now) : ops < MaxFailOps /\ Tick(d)

SpecFail == Init /\ [][NextFail]_vars

\* an invocation for the default location while the table is written from
\* outside: reminders recorded and expired items pruned by other invocations
\* land between any two of its steps (a prune that finds nothing to delete is
\* left out); the clock advances between invocations
NextWeekly ==
    \/ \E event \in Events({{}}) :
          event.valid /\ Quiet /\ ops < MaxWeeklyOps /\ Start(1, event)
    \/ WeatherCheckStep(1)
    \/ \E verdict \in Verdicts :
          /\ verdict.isGood
          /\ ops < MaxWeeklyOps
          /\ DirectRecordMessageSent("weather_reminder", DefaultLocation, verdict)
    \/ /\ cleanupOldRecords(table, CLEANUP_DAYS, now) # table
       /\ DirectCleanupOldRecords(CLEANUP_DAYS)
    \/ \E d \in TickSteps(now) : Quiet /\ ops < MaxWeeklyOps /\ Tick(d)

SpecWeekly == Init /\ [][NextWeekly]_vars

\* one location, every call succeeds, and the forecast API may have no point
\* for the hour of today
NextOutage ==
    \/ Sequential(MaxOutageOps, {{}}, {{}})
    \/ EvaluateWeather(1, NoForecast)

SpecOutage == Init /\ [][NextOutage]_vars

\* the storage service driven directly by a client, the clock advancing
\* between calls
NextStore ==
    \/ \E messageType \in MessageTypes, location \in Locations, verdict \in Verdicts :
          ops < MaxStoreOps /\ DirectRecordMessageSent(messageType, location, verdict)
    \/ \E messageType \in MessageTypes, location \in Locations :
          DirectCanSendMessageThisWeek(location, messageType)
    \/ \E d \in TickSteps(now) : ops < MaxStoreOps /\ Tick(d)

SpecStore == Init /\ [][NextStore]_vars

\* ============================================================== claims
\* vocabulary of the properties, stated on the items and the deliveries

\* index of the Monday-to-Sunday week a date falls in
WeekOf(date) == date \div 7

\* items of one location and type dated within one week
ItemsOfWeek(t, location, messageType, week) ==
    {r \in t : /\ r.location = location
               /\ r.messageType = messageType
               /\ \E d \in r.date : WeekOf(d) = week}

ItemExists(t, location, messageType, bucket) ==
    \E r \in t : r.location = location /\ r.messageType = messageType /\ r.date = bucket

\* messages of the given types the Notifier accepted for a location in a week
DeliveredInWeek(location, types, week) ==
    LET keys == {k \in BagToSet(delivered) :
                    k[1] = location /\ k[2] \in types /\ WeekOf(k[3]) = week}
    IN  BagCardinality([k \in keys |-> delivered[k]])

DeliveredWeeks == {<<k[1], WeekOf(k[3])>> : k \in BagToSet(delivered)}

CallsOf(i) == {i.calls[n] : n \in 1..Len(i.calls)}

NotifierCalls == {"sendWeatherReminder", "sendWeatherWarning"}
RecordCalls == {"recordMessageSent:weather_reminder", "recordMessageSent:weather_warning"}

\* the invocation has resolved its location, i.e. its event was valid
Running(i) == i.location # ""
Finished(i) == i.pc = "done" /\ i.location # ""

C3_ConfirmedShortCircuit ==
    \A p \in Procs :
        (/\ Running(inv[p])
         /\ ItemExists(inv[p].startTable, inv[p].location,
                       "lunch_confirmation", {7 * WeekOf(now)}))
        => /\ CallsOf(inv[p]) \cap (NotifierCalls \cup RecordCalls \cup {"isWeatherGood"}) = {}
           /\ inv[p].pc = "done" =>
                /\ inv[p].response.statusCode = 200
                /\ "lunchConfirmed" \in inv[p].response.keys
                /\ inv[p].response.lunchConfirmed = TRUE

\* C3 witness: an invocation started with the week's confirmation stored and
\* has been answered.
C3_Witness ==
    \E p \in Procs :
        /\ Finished(inv[p])
        /\ ItemExists(inv[p].startTable, inv[p].location,
                      "lunch_confirmation", {7 * WeekOf(now)})
        /\ inv[p].response.lunchConfirmed = TRUE

\* C4: once a confirm-lunch request without a date has been answered 200 for
\* location L, no later step hands a reminder or a warning for L to the
\* Notifier in that Monday-to-Sunday week.
C4_NoDeliveryAfterConfirmation ==
    [][\A location \in Locations, messageType \in MessageTypes :
          <<location, WeekOf(now)>> \in confirmedWeeks
          => CopiesIn(<<location, messageType, now>>, delivered')
                = CopiesIn(<<location, messageType, now>>, delivered)]_vars

\* C4 witness: after a confirmation, on a later day of the same week, an
\* invocation for the location has run to its answer.
C4_Witness ==
    \E p \in Procs :
        /\ Finished(inv[p])
        /\ <<inv[p].location, WeekOf(now)>> \in confirmedWeeks
        /\ \E r \in table : /\ r.messageType = "lunch_confirmation"
                            /\ r.location = inv[p].location
                            /\ r.timestamp < now
                            /\ WeekOf(r.timestamp) = WeekOf(now)

C6_RecordsOnlyAfterDelivery ==
    /\ \A r \in table :
          r.messageType \in MessageTypes
          => \E d \in r.date : CopiesIn(<<r.location, r.messageType, d>>, delivered) >= 1
    /\ \A p \in Procs :
          inv[p].failed \in NotifierCalls
          => /\ inv[p].pc = "done"
             /\ inv[p].response.statusCode = 500
             /\ CallsOf(inv[p]) \cap RecordCalls = {}
             /\ table = inv[p].startTable

\* C6 witness: a Notifier call has failed in an invocation that found an
\* earlier message item in the table.
C6_Witness ==
    \E p \in Procs :
        /\ Finished(inv[p])
        /\ inv[p].failed \in NotifierCalls
        /\ \E r \in table : r.messageType \in MessageTypes

OptInItems(t, location) ==
    {r \in t : r.messageType = "weather_warning_optin" /\ r.location = location}

OptedInItem(t, location) == \E r \in OptInItems(t, location) : r.optedIn = {TRUE}

BadVerdict(i) == "isWeatherGood" \in CallsOf(i) /\ ~i.weatherCondition.isGood

\* C7: when the verdict is not good and the location is not opted in, the
\* invocation never calls sendWeatherWarning, writes no item, and answers 200
\* with messagesSent.sent = false and messagesSent.type = ''.
C7_OptedOutNoWarning ==
    \A p \in Procs :
        (/\ Running(inv[p])
         /\ BadVerdict(inv[p])
         /\ ~OptedInItem(inv[p].startTable, inv[p].location))
        => /\ CallsOf(inv[p]) \cap ({"sendWeatherWarning"} \cup RecordCalls) = {}
           /\ table \subseteq inv[p].startTable
           /\ inv[p].pc = "done" =>
                /\ inv[p].response.statusCode = 200
                /\ "messagesSent" \in inv[p].response.keys
                /\ inv[p].response.sent = FALSE
                /\ inv[p].response.type = ""

\* C7 witness: an invocation with a bad verdict for a location that is not
\* opted in has been answered.
C7_Witness ==
    \E p \in Procs :
        /\ Finished(inv[p])
        /\ BadVerdict(inv[p])
        /\ ~OptedInItem(inv[p].startTable, inv[p].location)

\* the warning guards as the claim states them, on the table the invocation found
WarningAllowed(i) ==
    /\ ~ItemExists(i.startTable, i.location, "weather_warning", {now})
    /\ Cardinality(ItemsOfWeek(i.startTable, i.location, "weather_warning", WeekOf(now))) < 2

\* C8: for an opted-in location and a verdict that is not good, the answered
\* invocation has delivered a warning and stored its item with the verdict's
\* temperature and condition exactly when no warning item existed for
\* (L, today) and fewer than 2 warning items existed for L in the current
\* week; otherwise it has neither delivered nor stored anything and answers
\* 200 with messagesSent.sent = false.
C8_WarningIffGuardsPass ==
    \A p \in Procs :
        (/\ Finished(inv[p])
         /\ BadVerdict(inv[p])
         /\ OptedInItem(inv[p].startTable, inv[p].location))
        => IF WarningAllowed(inv[p])
           THEN /\ "sendWeatherWarning" \in CallsOf(inv[p])
                /\ CopiesIn(<<inv[p].location, "weather_warning", now>>, delivered) = 1
                /\ inv[p].response.statusCode = 200
                /\ inv[p].response.sent = TRUE
                /\ inv[p].response.type = "weather_warning"
                /\ \E r \in table :
                      /\ r.location = inv[p].location
                      /\ r.messageType = "weather_warning"
                      /\ r.date = {now}
                      /\ r.temperature = {inv[p].weatherCondition.temperature}
                      /\ r.weatherCondition = {inv[p].weatherCondition.condition}
           ELSE /\ CallsOf(inv[p]) \cap (NotifierCalls \cup RecordCalls) = {}
                /\ table \subseteq inv[p].startTable
                /\ inv[p].response.statusCode = 200
                /\ inv[p].response.sent = FALSE

\* C8 witness: an opted-in location with a bad verdict and no warning today
\* is refused a third warning of the week.
C8_Witness ==
    \E p \in Procs :
        /\ Finished(inv[p])
        /\ BadVerdict(inv[p])
        /\ OptedInItem(inv[p].startTable, inv[p].location)
        /\ ~ItemExists(inv[p].startTable, inv[p].location, "weather_warning", {now})
        /\ Cardinality(ItemsOfWeek(inv[p].startTable, inv[p].location,
                                   "weather_warning", WeekOf(now))) = 2
        /\ inv[p].response.sent = FALSE

OptActions == {"opt-in-warnings", "opt-out-warnings"}

\* C9: the table holds at most one opt-in item per location; a location
\* without one is opted out; and when an opt-in-warnings / opt-out-warnings
\* request has been answered, isOptedInToWeatherWarnings(L) and the optedIn
\* field of the answer both equal the value that request set.
C9_LatestOptInWins ==
    /\ \A location \in Locations :
          /\ Cardinality(OptInItems(table, location)) <= 1
          /\ OptInItems(table, location) = {} => ~isOptedInToWeatherWarnings(table, location)
    /\ \A q \in Procs :
          (/\ rep[q].pc = "done"
           /\ rep[q].action \in OptActions
           /\ rep[q].response.statusCode = 200)
          => /\ isOptedInToWeatherWarnings(table, rep[q].location)
                    = (rep[q].action = "opt-in-warnings")
             /\ rep[q].response.optedIn = {rep[q].action = "opt-in-warnings"}

\* C9 witness: an opt-out request for a location that was opted in has been
\* answered, and an opt-in for the other location is still in the table.
C9_Witness ==
    \E q \in Procs :
        /\ rep[q].pc = "done"
        /\ rep[q].action = "opt-out-warnings"
        /\ OptedInItem(rep[q].startTable, rep[q].location)
        /\ ~OptedInItem(table, rep[q].location)
        /\ \E other \in Locations \ {rep[q].location} : OptedInItem(table, other)

GuardOrder ==
    <<"getSecretValue",
      "hasLunchBeenConfirmedThisWeek",
      "hasMessageBeenSentToday:weather_reminder",
      "canSendMessageThisWeek:weather_reminder",
      "getWeeklyMessageStats:weather_reminder",
      "isWeatherGood">>

\* the three guards as the claim states them, on the table the invocation found
LunchGuardPasses(i) ==
    ~ItemExists(i.startTable, i.location, "lunch_confirmation", {7 * WeekOf(now)})
DailyGuardPasses(i) ==
    ~ItemExists(i.startTable, i.location, "weather_reminder", {now})
WeeklyGuardPasses(i) ==
    Cardinality(ItemsOfWeek(i.startTable, i.location, "weather_reminder", WeekOf(now))) < 2

\* C10: the calls of an invocation start with the guards in the order lunch
\* confirmed, reminder sent today, reminder weekly limit, and only then the
\* weather service; an answered invocation has called the weather service
\* exactly when all three guards passed; when only the weekly guard blocks,
\* the answer is 200 'Weekly message limit reached' with the weekly stats.
C10_GuardOrder ==
    \A p \in Procs :
        Running(inv[p]) =>
        /\ \A n \in 1..Len(inv[p].calls) : n <= Len(GuardOrder) => inv[p].calls[n] = GuardOrder[n]
        /\ inv[p].pc = "done" =>
             /\ ("isWeatherGood" \in CallsOf(inv[p]))
                    <=> (/\ LunchGuardPasses(inv[p])
                         /\ DailyGuardPasses(inv[p])
                         /\ WeeklyGuardPasses(inv[p]))
             /\ (LunchGuardPasses(inv[p]) /\ DailyGuardPasses(inv[p]) /\ ~WeeklyGuardPasses(inv[p]))
                => /\ inv[p].response.statusCode = 200
                   /\ inv[p].response.message = "Weekly message limit reached"
                   /\ "weeklyStats" \in inv[p].response.keys
                   /\ inv[p].response.weeklyStats.messageCount =
                          Cardinality(ItemsOfWeek(inv[p].startTable, inv[p].location,
                                                  "weather_reminder", WeekOf(now)))
                   /\ inv[p].response.weeklyStats.canSendMessage = FALSE

\* C10 witness: an invocation was stopped by the weekly guard after exactly
\* the four guard reads, echoing a count of 2.
C10_Witness ==
    \E p \in Procs :
        /\ Finished(inv[p])
        /\ Len(inv[p].calls) = 5
        /\ inv[p].response.message = "Weekly message limit reached"
        /\ inv[p].response.weeklyStats.messageCount = 2


\* the items stored for the key the last recordMessageSent call addressed
ItemsAtLastKey(t) ==
    {r \in t : /\ r.location = lastCall.location
               /\ r.messageType = lastCall.messageType
               /\ r.date = {lastCall.at}}

\* C15: after recordMessageSent(T, L, temperature, condition), also when an
\* item for (L, T, that date) was already stored, exactly one item exists at
\* that key, it carries the temperature, condition and timestamp of this
\* last call, every other item is as before, and for the rest of the day
\* hasMessageBeenSentToday(T, L) is true.
C15_RecordTwiceOneItem ==
    lastCall.op = "recordMessageSent" =>
        /\ Cardinality(ItemsAtLastKey(table)) = 1
        /\ \A r \in ItemsAtLastKey(table) :
              /\ r.temperature = lastCall.temperature
              /\ r.weatherCondition = lastCall.weatherCondition
              /\ r.timestamp = lastCall.at
        /\ table \ ItemsAtLastKey(table) = lastCall.before \ ItemsAtLastKey(lastCall.before)
        /\ now = lastCall.at =>
              hasMessageBeenSentToday(table, lastCall.messageType, lastCall.location, now)

\* C15 witness: recordMessageSent was called for a key that already held an
\* item with another temperature and condition.
C15_Witness ==
    /\ lastCall.op = "recordMessageSent"
    /\ \E r \in ItemsAtLastKey(lastCall.before) :
          /\ r.temperature # lastCall.temperature
          /\ r.weatherCondition # lastCall.weatherCondition
    /\ Cardinality(ItemsAtLastKey(table)) = 1

\* C16: canSendMessageThisWeek(L, T) answers whether fewer than 2 items of
\* location L and type T are dated within the Monday-to-Sunday week of
\* today; items of an earlier week, another location or another type do not
\* count.
C16_CanSendIsCountBelowCap ==
    (lastCall.op = "canSendMessageThisWeek" /\ lastCall.at = now) =>
        lastCall.result =
            (Cardinality(ItemsOfWeek(table, lastCall.location, lastCall.messageType,
                                     WeekOf(now))) < 2)

\* C16 witness: the answer is true although two items of the same location
\* and type are stored for the week before.
C16_Witness ==
    /\ lastCall.op = "canSendMessageThisWeek"
    /\ lastCall.at = now
    /\ lastCall.result = TRUE
    /\ Cardinality(ItemsOfWeek(table, lastCall.location, lastCall.messageType,
                               WeekOf(now) - 1)) = 2


AllGuardsPass(i) == LunchGuardPasses(i) /\ DailyGuardPasses(i) /\ WeeklyGuardPasses(i)

\* C11 (as stated): every invocation answered 200 has called
\* cleanupOldRecords, on the early exits too.
C11_Original ==
    \A p \in Procs :
        (Finished(inv[p]) /\ inv[p].response.statusCode = 200)
        => "cleanupOldRecords" \in CallsOf(inv[p])

\* C11 (amended): an invocation answered 200 has called cleanupOldRecords(30)
\* as its last call, leaving no item older than 30 days, exactly when it got
\* past the three guards (send, opted-out and warning-blocked paths); the
\* lunch-confirmed, already-sent-today and weekly-limit exits return without
\* the cleanup call and leave the table as it was.
C11_PruneAfterGuardsOnly ==
    \A p \in Procs :
        (Finished(inv[p]) /\ inv[p].response.statusCode = 200)
        => IF AllGuardsPass(inv[p])
           THEN /\ inv[p].calls[Len(inv[p].calls)] = "cleanupOldRecords"
                /\ \A r \in table : r.timestamp >= now - 30
           ELSE /\ "cleanupOldRecords" \notin CallsOf(inv[p])
                /\ table = inv[p].startTable

\* C11 witness: an early exit has been answered 200 while an item older than
\* 30 days is still stored.
C11_Witness ==
    \E p \in Procs :
        /\ Finished(inv[p])
        /\ inv[p].response.statusCode = 200
        /\ ~AllGuardsPass(inv[p])
        /\ \E r \in table : r.timestamp < now - 30

\* the item recordMessageSent wrote in this invocation is stored and its
\* message was delivered
SentAndRecorded(i) ==
    /\ CallsOf(i) \cap RecordCalls # {}
    /\ \E r \in table : /\ r.location = i.location
                        /\ r.messageType = i.messageType
                        /\ r.date = {now}
    /\ CopiesIn(<<i.location, i.messageType, now>>, delivered) >= 1

\* C12 (as stated): when cleanupOldRecords fails after a message was
\* delivered and recorded, the invocation still answers 200 with
\* messagesSent.sent = true.
C12_Original ==
    \A p \in Procs :
        (/\ inv[p].pc = "done"
         /\ inv[p].failed = "cleanupOldRecords"
         /\ SentAndRecorded(inv[p]))
        => /\ inv[p].response.statusCode = 200
           /\ inv[p].response.sent = TRUE

\* C12 (amended): a failing cleanupOldRecords ends the invocation with 500
\* 'Internal server error' and no summary, also after a message was delivered
\* and recorded; the delivery and its item stay.
C12_PruneFailureIsFatal ==
    \A p \in Procs :
        inv[p].failed = "cleanupOldRecords"
        => /\ inv[p].pc = "done"
           /\ inv[p].response.statusCode = 500
           /\ inv[p].response.error = "Internal server error"
           /\ "messagesSent" \notin inv[p].response.keys
           /\ inv[p].messageSent => SentAndRecorded(inv[p])

\* C12 witness: cleanupOldRecords has failed in an invocation that had
\* delivered and recorded a reminder.
C12_Witness ==
    \E p \in Procs :
        /\ inv[p].pc = "done"
        /\ inv[p].failed = "cleanupOldRecords"
        /\ inv[p].messageType = "weather_reminder"
        /\ SentAndRecorded(inv[p])

SummaryParts == {"weather", "messagesSent", "weeklyStats", "lunchConfirmed"}

\* C13 (as stated): every answer with status 200 contains the weather
\* verdict, messagesSent, the weekly stats and the lunch-confirmed flag.
C13_Original ==
    \A p \in Procs :
        (Finished(inv[p]) /\ inv[p].response.statusCode = 200)
        => SummaryParts \subseteq inv[p].response.keys

\* C13 (amended): the answer of an invocation that got past the three guards
\* contains all four parts, with messagesSent telling whether and what this
\* invocation delivered, lunchConfirmed = false and the weekly reminder stats
\* read before sending; of the four parts the lunch-confirmed exit carries
\* only lunchConfirmed = true, the weekly-limit exit only the weekly stats,
\* and the already-sent-today exit none.
C13_SummaryParts ==
    \A p \in Procs :
        (Finished(inv[p]) /\ inv[p].response.statusCode = 200)
        => IF ~LunchGuardPasses(inv[p])
           THEN /\ inv[p].response.keys \cap SummaryParts = {"lunchConfirmed"}
                /\ inv[p].response.lunchConfirmed = TRUE
           ELSE IF ~DailyGuardPasses(inv[p])
           THEN inv[p].response.keys \cap SummaryParts = {}
           ELSE IF ~WeeklyGuardPasses(inv[p])
           THEN inv[p].response.keys \cap SummaryParts = {"weeklyStats"}
           ELSE /\ SummaryParts \subseteq inv[p].response.keys
                /\ inv[p].response.lunchConfirmed = FALSE
                /\ inv[p].response.sent = (CallsOf(inv[p]) \cap NotifierCalls # {})
                /\ inv[p].response.type =
                      (IF "sendWeatherReminder" \in CallsOf(inv[p]) THEN "weather_reminder"
                       ELSE IF "sendWeatherWarning" \in CallsOf(inv[p]) THEN "weather_warning"
                       ELSE "")
                /\ inv[p].response.weeklyStats.messageCount =
                      Cardinality(ItemsOfWeek(inv[p].startTable, inv[p].location,
                                              "weather_reminder", WeekOf(now)))

\* C13 witness: the already-sent-today exit has been answered 200 with none
\* of the four parts.
C13_Witness ==
    \E p \in Procs :
        /\ Finished(inv[p])
        /\ inv[p].response.statusCode = 200
        /\ inv[p].response.message = "Message already sent today"
        /\ inv[p].response.keys \cap SummaryParts = {}


\* the week bucket a confirm-lunch request addresses: its date when it
\* carries one, else the Monday of the current week
ConfirmBucket(r) == IF r.date = {} THEN {7 * WeekOf(now)} ELSE r.date

ConfirmationItems(t, location, bucket) ==
    {r \in t : /\ r.location = location
               /\ r.messageType = "lunch_confirmation"
               /\ r.date = bucket}

\* C14: an answered confirm-lunch request that found no confirmation for its
\* location and week has written exactly one lunch-confirmation item and
\* answers confirmed = true; one that found a confirmation (a repeated
\* request) has written nothing, leaves the table as it was and answers
\* alreadyConfirmed = true.
C14_ConfirmIdempotent ==
    \A q \in Procs :
        (/\ rep[q].pc = "done"
         /\ rep[q].action = "confirm-lunch"
         /\ rep[q].response.statusCode = 200)
        => IF ConfirmationItems(rep[q].startTable, rep[q].location, ConfirmBucket(rep[q])) # {}
           THEN /\ rep[q].response.alreadyConfirmed = TRUE
                /\ "confirmed" \notin rep[q].response.keys
                /\ "recordLunchConfirmation" \notin CallsOf(rep[q])
                /\ table = rep[q].startTable
           ELSE /\ rep[q].response.confirmed = TRUE
                /\ "alreadyConfirmed" \notin rep[q].response.keys
                /\ Cardinality(ConfirmationItems(table, rep[q].location, ConfirmBucket(rep[q]))) = 1
                /\ table \ ConfirmationItems(table, rep[q].location, ConfirmBucket(rep[q]))
                      = rep[q].startTable

\* C14 witness: a second confirm-lunch request, on a later day of the week of
\* the first, has been answered alreadyConfirmed.
C14_Witness ==
    \E q \in Procs :
        /\ rep[q].pc = "done"
        /\ rep[q].action = "confirm-lunch"
        /\ rep[q].date = {}
        /\ rep[q].response.alreadyConfirmed = TRUE
        /\ \E r \in ConfirmationItems(table, rep[q].location, ConfirmBucket(rep[q])) :
              r.timestamp < now


KeyedTypes == MessageTypes \cup {"lunch_confirmation"}

\* C17: however weather-check invocations and confirm-lunch requests
\* interleave, the table never holds two different items with the same
\* location, type and date bucket, for reminders, warnings (bucket: calendar
\* date) and lunch confirmations (bucket: week start).
C17_OneItemPerKey ==
    \A r1 \in table, r2 \in table :
        (/\ r1.messageType \in KeyedTypes
         /\ r1.messageType = r2.messageType
         /\ r1.location = r2.location
         /\ r1.date = r2.date)
        => r1 = r2

\* C17 witness: two overlapping invocations have both recorded a warning for
\* the same location and date with different verdicts, and one item is stored.
C17_Witness ==
    \E p1 \in Procs, p2 \in Procs :
        /\ p1 # p2
        /\ Finished(inv[p1]) /\ Finished(inv[p2])
        /\ inv[p1].location = inv[p2].location
        /\ "recordMessageSent:weather_warning" \in CallsOf(inv[p1])
        /\ "recordMessageSent:weather_warning" \in CallsOf(inv[p2])
        /\ inv[p1].weatherCondition.temperature # inv[p2].weatherCondition.temperature
        /\ CopiesIn(<<inv[p1].location, "weather_warning", now>>, delivered) = 2
        /\ Cardinality({r \in table : /\ r.location = inv[p1].location
                                      /\ r.messageType = "weather_warning"
                                      /\ r.date = {now}}) = 1

ReminderItemsAt(location, date) ==
    {r \in table : /\ r.location = location
                   /\ r.messageType = "weather_reminder"
                   /\ r.date = {date}}

\* C18: when overlapping invocations have delivered two (or more) reminders
\* for one location and date, then, once none of them still has its
\* recordMessageSent call pending, the table holds exactly one reminder item
\* for that location and date (until it expires).
C18_DoubleSendSingleRecord ==
    \A k \in BagToSet(delivered) :
        (/\ k[2] = "weather_reminder"
         /\ delivered[k] >= 2
         /\ k[3] >= now - 30
         /\ \A p \in Procs : inv[p].pc # "recordReminder")
        => Cardinality(ReminderItemsAt(k[1], k[3])) = 1

\* C18 witness: two overlapping invocations have both passed the daily and
\* weekly guards and both delivered and recorded today's reminder: two
\* deliveries for one key, three in the week, one item stored.
C18_Witness ==
    \E p1 \in Procs, p2 \in Procs :
        /\ p1 # p2
        /\ Finished(inv[p1]) /\ Finished(inv[p2])
        /\ inv[p1].location = inv[p2].location
        /\ inv[p1].response.sent /\ inv[p1].response.type = "weather_reminder"
        /\ inv[p2].response.sent /\ inv[p2].response.type = "weather_reminder"
        /\ CopiesIn(<<inv[p1].location, "weather_reminder", now>>, delivered) = 2
        /\ DeliveredInWeek(inv[p1].location, {"weather_reminder"}, WeekOf(now)) = 3
        /\ Cardinality(ReminderItemsAt(inv[p1].location, now)) = 1


BusinessMessages ==
    {"Lunch already confirmed this week, no weather messages needed",
     "Message already sent today",
     "Weekly message limit reached",
     "Weather check completed successfully"}

\* C19: an invocation has no response until it ends and then has exactly one:
\* when one of its awaited calls (secret, Ledger, Weather Evaluator, Notifier)
\* failed, status 500 with error 'Internal server error'; when none failed and
\* the event was valid, status 200 with one of the business outcomes (lunch
\* confirmed, already sent today, weekly limit reached, or the completed
\* summary of the opted-out, warning-blocked and message-sent paths).
C19_StatusByOutcome ==
    \A p \in Procs :
        /\ inv[p].pc # "done" => inv[p].response = NoResponse /\ inv[p].failed = ""
        /\ (inv[p].pc = "done" /\ inv[p].failed # "")
           => /\ inv[p].failed \in AwaitedCalls
              /\ inv[p].response.statusCode = 500
              /\ inv[p].response.error = "Internal server error"
              /\ inv[p].response.message = ""
        /\ (inv[p].pc = "done" /\ inv[p].failed = "" /\ Running(inv[p]))
           => /\ inv[p].response.statusCode = 200
              /\ inv[p].response.error = ""
              /\ inv[p].response.message \in BusinessMessages
              /\ inv[p].response.message = "Weather check completed successfully"
                 <=> "cleanupOldRecords" \in CallsOf(inv[p])

\* C19 witness: after an earlier invocation delivered a reminder and answered,
\* the Notifier call of a later invocation has failed and it answered 500.
C19_Witness ==
    \E p \in Procs :
        /\ inv[p].pc = "done"
        /\ inv[p].failed = "sendWeatherReminder"
        /\ inv[p].response.statusCode = 500
        /\ \E k \in BagToSet(delivered) : k[1] = inv[p].location /\ k[2] = "weather_reminder"

GuardReads ==
    {"checkLunchConfirmed", "checkSentToday", "checkWeekly", "getWeeklyStats",
     "isOptedInToWeatherWarnings", "canSendWarning", "alreadySentWarningToday"}

\* C20: when a guard read or the weather evaluation of an invocation fails,
\* the invocation has ended with status 500 'Internal server error', has made
\* no Notifier call, and the table is as it was when the invocation started.
C20_ReadFailureLeavesNoTrace ==
    \A p \in Procs :
        inv[p].failed \in GuardReads \cup {"isWeatherGood"}
        => /\ inv[p].pc = "done"
           /\ inv[p].response.statusCode = 500
           /\ inv[p].response.error = "Internal server error"
           /\ CallsOf(inv[p]) \cap NotifierCalls = {}
           /\ CallsOf(inv[p]) \cap (RecordCalls \cup {"cleanupOldRecords"}) = {}
           /\ table = inv[p].startTable

\* C20 witness: the weather evaluation has failed in an invocation that had
\* passed the three guards with items stored in the table.
C20_Witness ==
    \E p \in Procs :
        /\ inv[p].pc = "done"
        /\ inv[p].failed = "isWeatherGood"
        /\ inv[p].response.statusCode = 500
        /\ "getWeeklyMessageStats:weather_reminder" \in CallsOf(inv[p])
        /\ \E r \in table : r.location = inv[p].location /\ r.messageType = "weather_reminder"




\* ------------------------------------------------ reply request claims
BotAgent == {"Slackbot-LinkExpanding 1.0"}

\* one of the two header spellings carries the link preview bot's user agent
NamesBot(req) == \E h \in {"User-Agent", "user-agent"} : req.headers[h] = BotAgent

\* the first header spelling that is present carries it
FirstAgentIsBot(req) ==
    \/ req.headers["User-Agent"] = BotAgent
    \/ req.headers["User-Agent"] = {} /\ req.headers["user-agent"] = BotAgent

KnownActions == {{"confirm-lunch"}, {"opt-in-warnings"}, {"opt-out-warnings"}}

UnknownAction(req) == req.payload.kind = "data" /\ req.payload.action \notin KnownActions \cup {{}}

InvalidJsonBody(req) == req.httpMethod = "POST" /\ req.payload.kind = "invalid"

\* the request has been answered with the given status and its invocation
\* has neither read nor written the Ledger
AnsweredWithoutLedger(r, status) ==
    /\ r.pc = "done"
    /\ r.response.statusCode = status
    /\ r.calls = <<>>
    /\ table = r.startTable

Received(r) == r.pc # "idle"

\* C21 (as stated): every request with an unknown action, and every POST whose
\* body is not valid JSON, is answered 400 without a Ledger read or write.
C21_Original ==
    \A q \in Procs :
        (Received(rep[q]) /\ (UnknownAction(rep[q].request) \/ InvalidJsonBody(rep[q].request)))
        => AnsweredWithoutLedger(rep[q], 400)

\* C21 (amended): a GET or POST request that does not come from the link
\* preview bot is answered 400 without a Ledger read or write when its action
\* is unknown or its POST body is not valid JSON; such a request from the bot,
\* or with another method, is answered 200 or 405, also without the Ledger.
C21_InvalidRequestNoLedger ==
    \A q \in Procs :
        LET req == rep[q].request
        IN  (Received(rep[q]) /\ (UnknownAction(req) \/ InvalidJsonBody(req)))
            => IF FirstAgentIsBot(req) \/ req.httpMethod = "OPTIONS"
               THEN AnsweredWithoutLedger(rep[q], 200)
               ELSE IF req.httpMethod \notin {"GET", "POST"}
               THEN AnsweredWithoutLedger(rep[q], 405)
               ELSE /\ AnsweredWithoutLedger(rep[q], 400)
                    /\ rep[q].response.error =
                          IF InvalidJsonBody(req) THEN "Invalid JSON in request body"
                          ELSE "Invalid request parameters"

\* C21 witness: a POST with an unknown action has been answered 400 while
\* the table holds a lunch confirmation, with no storage call made.
C21_Witness ==
    \E q \in Procs :
        /\ rep[q].request.httpMethod = "POST"
        /\ UnknownAction(rep[q].request)
        /\ AnsweredWithoutLedger(rep[q], 400)
        /\ \E r \in table : r.messageType = "lunch_confirmation"

LedgerCalls == {"recordLunchConfirmation", "setWeatherWarningOptInStatus"}

\* C22 (as stated): OPTIONS is answered 200 and any method other than GET,
\* POST and OPTIONS is answered 405, both without the Ledger; a request that
\* calls a writing Ledger operation is a GET or POST with a valid action.
C22_Original ==
    \A q \in Procs :
        LET req == rep[q].request
        IN  Received(rep[q])
            => /\ req.httpMethod = "OPTIONS" => AnsweredWithoutLedger(rep[q], 200)
               /\ req.httpMethod \notin {"GET", "POST", "OPTIONS"}
                  => AnsweredWithoutLedger(rep[q], 405)
               /\ (rep[q].pc \in LedgerCalls \/ table # rep[q].startTable)
                  => req.httpMethod \in {"GET", "POST"} /\ ~UnknownAction(req)

\* C22 (amended): a request that does not come from the link preview bot is
\* answered 200 'CORS preflight successful' when its method is OPTIONS and
\* 405 when its method is none of GET, POST, OPTIONS, both without the
\* Ledger; the bot is answered 200 whatever the method; a request that calls
\* a writing Ledger operation is a GET or POST with a valid (or defaulted)
\* action.
C22_MethodGate ==
    \A q \in Procs :
        LET req == rep[q].request
        IN  Received(rep[q])
            => /\ req.httpMethod = "OPTIONS" => AnsweredWithoutLedger(rep[q], 200)
               /\ (req.httpMethod = "OPTIONS" /\ ~FirstAgentIsBot(req))
                  => rep[q].response.message = "CORS preflight successful"
               /\ (req.httpMethod \notin {"GET", "POST", "OPTIONS"} /\ ~FirstAgentIsBot(req))
                  => /\ AnsweredWithoutLedger(rep[q], 405)
                     /\ rep[q].response.error = "Method not allowed"
               /\ (req.httpMethod \notin {"GET", "POST", "OPTIONS"} /\ FirstAgentIsBot(req))
                  => AnsweredWithoutLedger(rep[q], 200)
               /\ (rep[q].pc \in LedgerCalls \/ table # rep[q].startTable)
                  => /\ req.httpMethod \in {"GET", "POST"}
                     /\ ~UnknownAction(req)
                     /\ ~FirstAgentIsBot(req)

\* C22 witness: a request with a method other than GET, POST and OPTIONS and
\* a valid action has been answered 405 while the table holds a lunch
\* confirmation, untouched.
C22_Witness ==
    \E q \in Procs :
        /\ rep[q].request.httpMethod = "PUT"
        /\ rep[q].request.payload.action = {"opt-in-warnings"}
        /\ AnsweredWithoutLedger(rep[q], 405)
        /\ \E r \in table : r.messageType = "lunch_confirmation"

\* C23: every request one of whose headers 'User-Agent' or 'user-agent'
\* carries the link preview bot's user agent is answered 200 'Bot request
\* blocked' without a Ledger read or write, whatever its method and payload.
C23_BotNeverReachesLedger ==
    \A q \in Procs :
        (Received(rep[q]) /\ NamesBot(rep[q].request))
        => /\ AnsweredWithoutLedger(rep[q], 200)
           /\ rep[q].response.message = "Bot request blocked"


\* ------------------------------------------------------ weather claims
\* C24: for every evaluated point, minimum temperature, good set and bad set,
\* the verdict is good exactly when its temperature is above the minimum and
\* its condition is in the good set and not in the bad set.
C24_IsGoodFormula ==
    (lastCall.op = "isWeatherGood" /\ lastCall.forecast.found)
    => LET v == lastCall.verdict
       IN  v.isGood <=> /\ v.temperature > lastCall.minTemperature
                        /\ v.condition \in lastCall.good
                        /\ v.condition \notin lastCall.bad

\* C24 witness: a point whose temperature is above the minimum and whose
\* condition is listed both as good and as bad has been judged not good.
C24_Witness ==
    /\ lastCall.op = "isWeatherGood"
    /\ lastCall.forecast.found
    /\ lastCall.verdict.temperature > lastCall.minTemperature
    /\ lastCall.verdict.condition \in lastCall.good \cap lastCall.bad
    /\ ~lastCall.verdict.isGood


\* ------------------------------------------------------ pruning claims
Pruned == lastCall.op = "cleanupOldRecords"

QueryTypes == MessageTypes \cup {"lunch_confirmation"}

\* the answers of the daily check, the weekly statistics and the current-week
\* confirmation check on table t1 and on table t2 at time 'at'
SameDailyAnswers(t1, t2, at) ==
    \A location \in Locations, messageType \in MessageTypes :
        hasMessageBeenSentToday(t1, messageType, location, at)
        = hasMessageBeenSentToday(t2, messageType, location, at)

SameWeeklyAnswers(t1, t2, at) ==
    \A location \in Locations, messageType \in MessageTypes :
        getWeeklyMessageStats(t1, location, messageType, at)
        = getWeeklyMessageStats(t2, location, messageType, at)

SameConfirmationAnswers(t1, t2, at) ==
    \A location \in Locations :
        hasLunchBeenConfirmedThisWeek(t1, location, at)
        = hasLunchBeenConfirmedThisWeek(t2, location, at)

\* exactly the items with a timestamp before the cutoff are gone
PrunedExactly ==
    /\ table \subseteq lastCall.before
    /\ \A r \in lastCall.before :
           r \in table <=> r.timestamp >= lastCall.at - lastCall.daysToKeep

EarlyConfirmation(t, location, at) ==
    \E r \in t : /\ r.location = location
                 /\ r.messageType = "lunch_confirmation"
                 /\ r.date = {at - (at % 7)}
                 /\ r.timestamp < at - 30

OptOutPending(location) ==
    \E q \in Procs : /\ rep[q].pc = "setWeatherWarningOptInStatus"
                     /\ rep[q].action = "opt-out-warnings"
                     /\ rep[q].location = location

\* C26: a location that is opted in stays opted in across every step that is
\* not the write of an opt-out request for it, whatever invocations and
\* cleanupOldRecords(30) sweeps run and however much time passes.
C26_OptInSurvivesPruning ==
    [][\A location \in Locations :
          (OptedInItem(table, location) /\ ~OptOutPending(location))
          => OptedInItem(table', location)]_vars


\* ------------------------------------------------- good-weather path
Positions(seq, name) == {n \in 1..Len(seq) : seq[n] = name}

\* C27: an invocation that found no confirmation for the week, no reminder of
\* today and fewer than two reminders this week, and whose verdict is good,
\* has made one sendWeatherReminder call followed by one recordMessageSent
\* call; one reminder was delivered for (L, today); the table holds one
\* reminder item for (L, today), carrying the verdict's temperature and
\* condition, and it is the only reminder item the invocation added; the
\* answer is 200 with messagesSent.sent = true and type weather_reminder.
C27_GoodWeatherPath ==
    \A p \in Procs :
        (/\ Finished(inv[p])
         /\ AllGuardsPass(inv[p])
         /\ "isWeatherGood" \in CallsOf(inv[p])
         /\ inv[p].weatherCondition.isGood)
        => LET i == inv[p]
               sends == Positions(i.calls, "sendWeatherReminder")
               records == Positions(i.calls, "recordMessageSent:weather_reminder")
               added == {r \in table : r.messageType \in MessageTypes /\ r \notin i.startTable}
           IN  /\ Cardinality(sends) = 1
               /\ Cardinality(records) = 1
               /\ \A s \in sends, r \in records : s < r
               /\ "sendWeatherWarning" \notin CallsOf(i)
               /\ CopiesIn(<<i.location, "weather_reminder", now>>, delivered) = 1
               /\ Cardinality(added) = 1
               /\ \A r \in added :
                      /\ r.location = i.location
                      /\ r.messageType = "weather_reminder"
                      /\ r.date = {now}
                      /\ r.temperature = {i.weatherCondition.temperature}
                      /\ r.weatherCondition = {i.weatherCondition.condition}
               /\ Cardinality(ReminderItemsAt(i.location, now)) = 1
               /\ i.response.statusCode = 200
               /\ i.response.sent = TRUE
               /\ i.response.type = "weather_reminder"

\* C27 witness: the second reminder of a week has been delivered, recorded
\* and reported on the day after the first.
C27_Witness ==
    \E p \in Procs :
        /\ Finished(inv[p])
        /\ AllGuardsPass(inv[p])
        /\ inv[p].weatherCondition.isGood
        /\ inv[p].response.sent
        /\ Cardinality(ItemsOfWeek(table, inv[p].location, "weather_reminder", WeekOf(now))) = 2
        /\ \E r \in ReminderItemsAt(inv[p].location, now) :
               r.temperature = {inv[p].weatherCondition.temperature}


\* ---------------------------------------------------------------- C28
OverrideFields ==
    {"locationName", "locationLat", "locationLon", "minTemperature", "weatherCheckHour",
     "goodWeatherConditions", "badWeatherConditions", "slackWebhookUrl"}

\* the configuration when no field is provided and the secret holds 'url'
DefaultConfig(url) == ConfigOf(NoOverrides, url)

\* the configuration of the last getConfig call, which returned one
LoadedConfig == CHOOSE c \in lastCall.config : TRUE

\* C28: every override field supplied in the event takes effect: the
\* effective configuration equals the supplied value of each field, zero
\* included, and has the default only where the field is not provided.
C28_EveryOverrideTakesEffect ==
    (lastCall.op = "getConfig" /\ ~lastCall.threw) =>
        \A field \in OverrideFields :
            LET supplied == lastCall.eventOverrides[field] IN
            IF supplied = {}
            THEN LoadedConfig[field] = DefaultConfig(LoadedConfig.slackWebhookUrl)[field]
            ELSE LoadedConfig[field] = CHOOSE v \in supplied : TRUE

\* the supplied values that JavaScript's || does not skip
Truthy(field, supplied) ==
    IF field \in {"locationLat", "locationLon", "minTemperature", "weatherCheckHour"}
    THEN supplied # {0}
    ELSE IF field = "locationName" THEN supplied # {""}
    ELSE TRUE

\* what getConfig does guarantee: a supplied value other than 0 and '' takes
\* effect, and a field that is not provided has the default
C28_TruthyOverrideTakesEffect ==
    (lastCall.op = "getConfig" /\ ~lastCall.threw) =>
        \A field \in OverrideFields :
            LET supplied == lastCall.eventOverrides[field] IN
            IF supplied = {}
            THEN LoadedConfig[field] = DefaultConfig(LoadedConfig.slackWebhookUrl)[field]
            ELSE Truthy(field, supplied) => LoadedConfig[field] = CHOOSE v \in supplied : TRUE

\* a load with minTemperature = 0 and nothing else supplied has returned
C28_ZeroSupplied ==
    /\ lastCall.op = "getConfig"
    /\ ~lastCall.threw
    /\ lastCall.eventOverrides = [NoOverrides EXCEPT !.minTemperature = {0}]


\* ---------------------------------------------------------------- C29
\* getSecretValue resolved with a secret that holds a webhook URL; a value
\* that is no string, or the empty string, is no URL
Fetched(secretValue) ==
    secretValue.ok /\ secretValue.webhook_url # {} /\ secretValue.webhook_url # {""}

\* the secret calls since the last reset that fetched a webhook URL
Fetches == {i \in 1..Len(secretCalls) : Fetched(secretCalls[i])}

\* after a fetch that succeeded the process makes no further secret call,
\* and every load without an override returns the URL that was fetched
ReusesFetched ==
    /\ \A i \in Fetches : i = Len(secretCalls)
    /\ (Fetches # {} /\ lastCall.op = "getConfig" /\ lastCall.eventOverrides.slackWebhookUrl = {}) =>
           /\ ~lastCall.threw
           /\ LoadedConfig.slackWebhookUrl \in secretCalls[Len(secretCalls)].webhook_url

\* while no fetch has succeeded no URL is cached, whatever was loaded with an
\* override
FailureCachesNothing == Fetches = {} => cachedWebhookUrl \in {{}, {""}}

\* a load without an override that finds no URL cached calls the secret;
\* so does the load that follows clearCache
FetchesAgain ==
    (lastCall'.op = "getConfig" /\ lastCall'.eventOverrides.slackWebhookUrl = {}
        /\ (Fetches = {} \/ lastCall.op = "clearCache")) =>
        /\ lastCall'.called
        /\ Len(secretCalls') = IF lastCall.op = "clearCache" THEN 1 ELSE Len(secretCalls) + 1

Redacted(response) ==
    /\ response.webhookUrl = IF "config" \in response.keys THEN "[REDACTED]" ELSE ""
    /\ response.message \notin WebhookUrls
    /\ response.error \notin WebhookUrls

\* two weather-check runs that found the same table, took the same location,
\* were given the same weather and failed at the same call, if at all
SameRun(a, b) ==
    /\ a.pc = "done" /\ b.pc = "done"
    /\ a.startTable = b.startTable
    /\ a.overrides = b.overrides
    /\ a.failed = b.failed
    /\ (a.weatherCondition # NoVerdict /\ b.weatherCondition # NoVerdict)
           => a.weatherCondition = b.weatherCondition

\* two reply runs that found the same table, got the same request and failed
\* at the same call, if at all
SameReply(a, b) ==
    /\ a.pc = "done" /\ b.pc = "done"
    /\ a.startTable = b.startTable
    /\ a.request = b.request
    /\ a.failed = b.failed

\* C30: no response of either handler reveals the webhook URL: every body
\* with a config object carries slackWebhookUrl = '[REDACTED]', and two runs
\* that differ only in the webhook URL, from the secret or from the event,
\* are answered with identical bodies.
C30_WebhookUrlNotRevealed ==
    /\ \A p \in Procs : inv[p].pc = "done" => Redacted(inv[p].response)
    /\ \A q \in Procs : rep[q].pc = "done" => Redacted(rep[q].response)
    /\ SameRun(inv[1], inv[2]) => inv[1].response = inv[2].response
    /\ SameReply(rep[1], rep[2]) => rep[1].response = rep[2].response

\* C30 witness: two runs with different webhook URLs, one from a rotated secret
\* or the event, found the same table and have both sent a reminder and
\* answered with a config object.
C30_Witness ==
    /\ SameRun(inv[1], inv[2])
    /\ inv[1].slackWebhookUrl # inv[2].slackWebhookUrl
    /\ inv[1].response.sent /\ inv[2].response.sent
    /\ "config" \in inv[1].response.keys

\* two reply runs with different webhook URLs have answered the same request
C30_ReplyWitness ==
    /\ SameReply(rep[1], rep[2])
    /\ rep[1].slackWebhookUrl # rep[2].slackWebhookUrl
    /\ "config" \in rep[1].response.keys


\* ---------------------------------------------------------------- C31
\* the table rejected a command of the last storage call
StoreRejected == "outcome" \in DOMAIN lastCall

\* the error each operation is stated to fail with
OperationErrors ==
    [hasMessageBeenSentToday |-> "Failed to check message status",
     recordMessageSent |-> "Failed to record message",
     getWeeklyMessageStats |-> "Failed to get weekly message stats",
     getMessageHistory |-> "Failed to get message history",
     cleanupOldRecords |-> "Failed to cleanup old records",
     recordLunchConfirmation |-> "Failed to record lunch confirmation",
     hasLunchBeenConfirmedThisWeek |-> "Failed to check lunch confirmation"]

\* C31: when the table rejects a command, the storage operation fails with
\* the error of that operation, has sent no command twice, and returns no
\* value in place of the error.
C31_RejectedCallFails ==
    StoreRejected =>
        /\ lastCall.outcome.threw
        /\ lastCall.outcome.returned = {}
        /\ IF lastCall.op \in DOMAIN OperationErrors
           THEN lastCall.outcome.error = OperationErrors[lastCall.op]
           ELSE \E name \in DOMAIN OperationErrors : lastCall.outcome.error = OperationErrors[name]
        /\ \A c \in BagToSet(lastCall.outcome.sends) : CopiesIn(c, lastCall.outcome.sends) = 1
        /\ table \subseteq lastCall.before

\* C31 witness: a cleanup found two expired items, one DeleteItem was
\* rejected and the other went through; the call failed.
C31_Witness ==
    /\ StoreRejected
    /\ lastCall.op = "cleanupOldRecords"
    /\ BagCardinality(lastCall.outcome.sends) = 3
    /\ Cardinality(lastCall.before \ table) = 1
    /\ lastCall.outcome.threw

\* a read was rejected while the table held the item it asked for
C31_ReadWitness ==
    /\ StoreRejected
    /\ lastCall.op = "hasMessageBeenSentToday"
    /\ hasMessageBeenSentToday(table, lastCall.messageType, lastCall.location, now)


\* ---------------------------------------------------------------- C32
\* the table holds a lunch confirmation of the location stored for a date of
\* the given week
ConfirmedByDate(t, location, week) ==
    \E r \in t : /\ r.location = location
                 /\ r.messageType = "lunch_confirmation"
                 /\ \E d \in r.date : WeekOf(d) = week

\* a confirm-lunch request that carried a date of the current week has been
\* answered 200
DatedConfirmation(r) ==
    /\ r.pc = "done"
    /\ r.action = "confirm-lunch"
    /\ r.response.statusCode = 200
    /\ \E d \in r.date : WeekOf(d) = WeekOf(now)

C32_MondayRoundTrips ==
    /\ \A q \in Procs :
           (DatedConfirmation(rep[q]) /\ rep[q].date = {getWeekStart(now)}) =>
               hasLunchBeenConfirmedThisWeek(table, rep[q].location, now)
    /\ \A p \in Procs :
           (Finished(inv[p])
               /\ ItemExists(inv[p].startTable, inv[p].location, "lunch_confirmation", {7 * WeekOf(now)}))
               => inv[p].response.lunchConfirmed

\* a request with a Monday date was answered and a later invocation saw it
C32_MondaySeen ==
    \E p \in Procs :
        /\ Finished(inv[p])
        /\ inv[p].response.lunchConfirmed
        /\ now > 0


\* ---------------------------------------------------------------- C33
\* the confirmations of a location that were stored in the given week
ConfirmationsMadeIn(t, location, week) ==
    {r \in t : /\ r.location = location
               /\ r.messageType = "lunch_confirmation"
               /\ WeekOf(r.timestamp) = week}

\* the invocation is the first of its week to get as far as the weather: the
\* table it found holds no reminder and no confirmation of the current week
FirstOfWeek(i) ==
    /\ Finished(i)
    /\ ItemsOfWeek(i.startTable, i.location, "weather_reminder", WeekOf(now)) = {}
    /\ ConfirmationsMadeIn(i.startTable, i.location, WeekOf(now)) = {}

\* C33: a lunch confirmation suppresses only its own week: while no
\* confirmation has been stored in the current week the guard reads false,
\* whatever earlier weeks left in the table, and the first invocation of the
\* week evaluates the weather and, on a good verdict, delivers a reminder.
C33_ConfirmationEndsWithItsWeek ==
    /\ \A location \in Locations :
           ConfirmationsMadeIn(table, location, WeekOf(now)) = {}
               => ~hasLunchBeenConfirmedThisWeek(table, location, now)
    /\ \A p \in Procs :
           FirstOfWeek(inv[p]) =>
               /\ ~inv[p].response.lunchConfirmed
               /\ inv[p].weatherCondition # NoVerdict
               /\ inv[p].weatherCondition.isGood =>
                      /\ inv[p].response.sent
                      /\ inv[p].response.type = "weather_reminder"
                      /\ DeliveredInWeek(inv[p].location, {"weather_reminder"}, WeekOf(now)) = 1

\* C33 witness: the week before, a reminder was sent and lunch was confirmed;
\* both items are still in the table, and the first invocation of the new
\* week has delivered a reminder.
C33_Witness ==
    \E p \in Procs :
        /\ FirstOfWeek(inv[p])
        /\ inv[p].response.sent
        /\ ConfirmationsMadeIn(table, inv[p].location, WeekOf(now) - 1) # {}
        /\ ItemsOfWeek(table, inv[p].location, "weather_reminder", WeekOf(now) - 1) # {}


\* a warning has been handed to the Notifier by this invocation
WarningDelivered(i) == Running(i) /\ "sendWeatherWarning" \in CallsOf(i)

RemindersOfWeek(t, location) ==
    Cardinality(ItemsOfWeek(t, location, "weather_reminder", WeekOf(now)))

WarningsOfWeek(t, location) ==
    Cardinality(ItemsOfWeek(t, location, "weather_warning", WeekOf(now)))

\* C34: an invocation delivers a warning only when the three reminder guards
\* passed: at the moment a warning is delivered for L the table holds no
\* confirmation of the week for L, no reminder item for (L, today) and fewer
\* than two reminder items of the week for L; so once a reminder is recorded
\* for (L, today), or two are recorded in the week, no warning follows for
\* the rest of the day, respectively week.
C34_WarningOnlyPastReminderGuards ==
    \A p \in Procs :
        WarningDelivered(inv[p]) =>
            /\ LunchGuardPasses(inv[p])
            /\ DailyGuardPasses(inv[p])
            /\ WeeklyGuardPasses(inv[p])
            /\ inv[p].pc = "recordWarning" =>
                  /\ ~ItemExists(table, inv[p].location, "lunch_confirmation", {7 * WeekOf(now)})
                  /\ ~ItemExists(table, inv[p].location, "weather_reminder", {now})
                  /\ RemindersOfWeek(table, inv[p].location) < 2

\* C34 witness: a warning and then a reminder were delivered for L on the same
\* day, and a later invocation of that day, for the opted-in location with
\* one warning in the week, ends at the daily reminder guard without a warning.
C34_Witness ==
    \E p \in Procs :
        /\ Finished(inv[p])
        /\ inv[p].response.message = "Message already sent today"
        /\ OptedInItem(table, inv[p].location)
        /\ WarningsOfWeek(table, inv[p].location) = 1
        /\ ItemExists(table, inv[p].location, "weather_warning", {now})
        /\ ItemExists(table, inv[p].location, "weather_reminder", {now})
        /\ delivered[<<inv[p].location, "weather_warning", now>>] = 1
        /\ delivered[<<inv[p].location, "weather_reminder", now>>] = 1

\* C34 witness of the weekly case: with two reminders recorded in the week and
\* none today, the invocation for an opted-in location that has had no
\* warning ends at the weekly guard.
C34_WeeklyWitness ==
    \E p \in Procs :
        /\ Finished(inv[p])
        /\ inv[p].response.message = "Weekly message limit reached"
        /\ OptedInItem(table, inv[p].location)
        /\ WarningsOfWeek(table, inv[p].location) = 0
        /\ ~ItemExists(table, inv[p].location, "weather_reminder", {now})
        /\ BagToSet(delivered) = {k \in BagToSet(delivered) : k[2] = "weather_reminder"}


\* the invocation has answered that the weekly limit is reached
WeeklyLimitExit(i) ==
    Finished(i) /\ i.response.message = "Weekly message limit reached"

C35_PruneWitness ==
    \E p \in Procs :
        /\ WeeklyLimitExit(inv[p])
        /\ \E r \in inv[p].startTable : r \notin table /\ r.messageType = "weather_reminder"
        /\ inv[p].response.weeklyStats.messageCount = 2


\* the type recordMessageSent was called with when the call at 'step' rejected
RecordedTypeOf(step) ==
    IF step = "recordReminder" THEN "weather_reminder" ELSE "weather_warning"

\* the record call of this invocation rejected, after its Notifier call resolved
RecordFailed(i) ==
    Finished(i) /\ i.failed \in {"recordReminder", "recordWarning"}

\* C36: when recordMessageSent rejects after the Notifier accepted the
\* message, the invocation answers 500 with the error, the message has been
\* delivered for (L, today), and the table holds no item for (L, type, today),
\* so the sent-today guard of that type reads false for the rest of the day.
C36_FailedRecordLeavesNoTrace ==
    \A p \in Procs :
        RecordFailed(inv[p]) =>
            LET type == RecordedTypeOf(inv[p].failed)
            IN  /\ inv[p].response.statusCode = 500
                /\ inv[p].response.keys = {"error", "message"}
                /\ delivered[<<inv[p].location, type, now>>] >= 1
                /\ ~ItemExists(table, inv[p].location, type, {now})
                /\ ~hasMessageBeenSentToday(table, type, inv[p].location, now)
                /\ table = inv[p].startTable

\* C36 witness: after such a failure a later invocation of the same day
\* passed the daily guard and delivered the reminder a second time, this time
\* recording it.
C36_Witness ==
    \E p \in Procs :
        /\ Finished(inv[p])
        /\ inv[p].response.statusCode = 200
        /\ inv[p].response.sent
        /\ inv[p].response.type = "weather_reminder"
        /\ delivered[<<inv[p].location, "weather_reminder", now>>] = 2
        /\ ~ItemExists(inv[p].startTable, inv[p].location, "weather_reminder", {now})
        /\ ItemExists(table, inv[p].location, "weather_reminder", {now})

\* C36 witness of the failure itself, for a warning.
C36_FailedWitness ==
    \E p \in Procs :
        /\ RecordFailed(inv[p])
        /\ inv[p].failed = "recordWarning"
        /\ delivered[<<inv[p].location, "weather_warning", now>>] = 1


\* calls of the invocation that resolved, and the one that rejected
Resolved(i, names) == Cardinality(UNION {Positions(i.calls, name) : name \in names})
Attempted(i, names, steps) == Resolved(i, names) + (IF i.failed \in steps THEN 1 ELSE 0)

\* the type of the message the invocation handed to the Notifier, if any
DeliveredType(i) ==
    IF "sendWeatherReminder" \in CallsOf(i) THEN "weather_reminder"
    ELSE IF "sendWeatherWarning" \in CallsOf(i) THEN "weather_warning"
    ELSE ""

BothResolved(i) ==
    \/ {"sendWeatherReminder", "recordMessageSent:weather_reminder"} \subseteq CallsOf(i)
    \/ {"sendWeatherWarning", "recordMessageSent:weather_warning"} \subseteq CallsOf(i)

\* C37: an invocation makes at most one Notifier call and at most one
\* recordMessageSent call, never a reminder call and a warning call both; the
\* record call comes right after the Notifier call that resolved and carries
\* its type, and the item it stores is of that type; messageSent is true
\* exactly when both calls resolved, and a summary answer reports that value
\* with the type delivered.
C37_OneSendOneRecord ==
    \A p \in Procs :
        Running(inv[p]) =>
            LET i == inv[p]
                n == Len(i.calls)
            IN  /\ Attempted(i, NotifierCalls, {"sendWeatherReminder", "sendWeatherWarning"}) <= 1
                /\ Attempted(i, RecordCalls, {"recordReminder", "recordWarning"}) <= 1
                /\ ~(/\ Attempted(i, {"sendWeatherReminder", "recordMessageSent:weather_reminder"},
                                  {"sendWeatherReminder", "recordReminder"}) > 0
                     /\ Attempted(i, {"sendWeatherWarning", "recordMessageSent:weather_warning",
                                      "isOptedInToWeatherWarnings"},
                                  {"sendWeatherWarning", "recordWarning",
                                   "isOptedInToWeatherWarnings"}) > 0)
                /\ \A k \in 1..n :
                      /\ i.calls[k] = "recordMessageSent:weather_reminder" =>
                            k > 1 /\ i.calls[k - 1] = "sendWeatherReminder"
                      /\ i.calls[k] = "recordMessageSent:weather_warning" =>
                            k > 1 /\ i.calls[k - 1] = "sendWeatherWarning"
                /\ i.failed = "recordReminder" => i.calls[n] = "sendWeatherReminder"
                /\ i.failed = "recordWarning" => i.calls[n] = "sendWeatherWarning"
                /\ i.pc = "cleanupOldRecords" /\ BothResolved(i) =>
                      /\ ItemExists(table, i.location, DeliveredType(i), {now})
                      /\ {r \in table : r.messageType # DeliveredType(i)}
                            = {r \in i.startTable : r.messageType # DeliveredType(i)}
                /\ i.messageSent <=> BothResolved(i)
                /\ i.messageSent => i.messageType = DeliveredType(i)
                /\ "messagesSent" \in i.response.keys =>
                      /\ i.response.sent <=> BothResolved(i)
                      /\ i.response.type = (IF BothResolved(i) THEN DeliveredType(i) ELSE "")

\* C37 witness: a summary that reports a warning sent, after one
\* sendWeatherWarning and one recordMessageSent call of the warning type.
C37_Witness ==
    \E p \in Procs :
        /\ Finished(inv[p])
        /\ "messagesSent" \in inv[p].response.keys
        /\ inv[p].response.sent
        /\ inv[p].response.type = "weather_warning"
        /\ Resolved(inv[p], NotifierCalls) = 1
        /\ Resolved(inv[p], RecordCalls) = 1

\* C37 witness of a delivery without a record: the record call rejected and
\* messageSent stayed false.
C37_UnrecordedWitness ==
    \E p \in Procs :
        /\ Finished(inv[p])
        /\ inv[p].failed = "recordReminder"
        /\ Resolved(inv[p], NotifierCalls) = 1
        /\ ~inv[p].messageSent

\* C37 witness of a summary lost: both calls resolved and the cleanup call
\* rejected, so the answer is 500 and carries no messagesSent.
C37_CleanupFailedWitness ==
    \E p \in Procs :
        /\ Finished(inv[p])
        /\ inv[p].failed = "cleanupOldRecords"
        /\ inv[p].messageSent
        /\ "messagesSent" \notin inv[p].response.keys


\* what the guards answer for a location on a given table, today
GuardResults(t, location) ==
    [confirmed |-> hasLunchBeenConfirmedThisWeek(t, location, now),
     sentToday |-> [type \in MessageTypes |-> hasMessageBeenSentToday(t, type, location, now)],
     weekly |-> [type \in MessageTypes |-> getWeeklyMessageStats(t, location, type, now)],
     optedIn |-> isOptedInToWeatherWarnings(t, location)]

ItemsOf(t, location) == {r \in t : r.location = location}

\* the weather check has reached or passed its cleanup call
CleanupCalled(i) == "cleanupOldRecords" \in CallsOf(i)

\* C38: while a handler works for location L, the items of every other
\* location, and with them the answers of its guards (confirmed, sent today,
\* weekly stats, opted in), are those the handler found, until the weather
\* check makes its cleanup call; after that call the items of another
\* location are those the cleanup of the found table leaves.
C38_PartitionedByLocation ==
    \A other \in Locations :
        /\ \A p \in Procs :
              Running(inv[p]) /\ inv[p].location # other =>
                  IF CleanupCalled(inv[p])
                  THEN ItemsOf(table, other)
                          = ItemsOf(cleanupOldRecords(inv[p].startTable, CLEANUP_DAYS, now), other)
                  ELSE /\ ItemsOf(table, other) = ItemsOf(inv[p].startTable, other)
                       /\ GuardResults(table, other) = GuardResults(inv[p].startTable, other)
        /\ \A q \in Procs :
              rep[q].pc # "idle" /\ rep[q].location # "" /\ rep[q].location # other =>
                  /\ ItemsOf(table, other) = ItemsOf(rep[q].startTable, other)
                  /\ GuardResults(table, other) = GuardResults(rep[q].startTable, other)

\* C38 witness: a reminder was recorded for Berlin on a day on which Munich
\* already has one, and Munich's items and guard answers are as before.
C38_Witness ==
    \E p \in Procs :
        /\ inv[p].pc = "cleanupOldRecords"
        /\ inv[p].location = "Berlin"
        /\ inv[p].messageSent
        /\ ItemsOf(table, "Berlin") # ItemsOf(inv[p].startTable, "Berlin")
        /\ hasMessageBeenSentToday(table, "weather_reminder", "Munich", now)
        /\ hasMessageBeenSentToday(table, "weather_reminder", "Berlin", now)

\* C38 witness of a reply: Berlin confirmed lunch or changed its preference
\* while Munich is opted in; Munich's items are untouched.
C38_ReplyWitness ==
    \E q \in Procs :
        /\ rep[q].pc = "done"
        /\ rep[q].location = "Berlin"
        /\ table # rep[q].startTable
        /\ isOptedInToWeatherWarnings(table, "Munich")

\* C38 witness of the cleanup acting across locations: the cleanup call of an
\* invocation for Berlin deleted an item of Munich.
C38_PruneWitness ==
    \E p \in Procs :
        /\ Finished(inv[p])
        /\ inv[p].location = "Berlin"
        /\ CleanupCalled(inv[p])
        /\ ItemsOf(table, "Munich") # ItemsOf(inv[p].startTable, "Munich")


\* the weather service found no forecast point for this invocation
NoForecastFound(i) ==
    "isWeatherGood" \in CallsOf(i) /\ i.weatherCondition.description = "No forecast available"

\* C39: when the forecast has no point for today the verdict is not good,
\* with temperature 0; the invocation makes no reminder call and stores no
\* reminder, goes on to the opt-in check, and delivers a warning only when the
\* location is opted in, has no warning of today and fewer than two warnings
\* this week.
C39_NoForecastIsBadWeather ==
    \A p \in Procs :
        NoForecastFound(inv[p]) =>
            LET i == inv[p]
            IN  /\ ~i.weatherCondition.isGood
                /\ i.weatherCondition.temperature = 0
                /\ CallsOf(i) \cap {"sendWeatherReminder", "recordMessageSent:weather_reminder"} = {}
                /\ ItemsOfWeek(table, i.location, "weather_reminder", WeekOf(now))
                      = ItemsOfWeek(i.startTable, i.location, "weather_reminder", WeekOf(now))
                /\ i.pc # "isOptedInToWeatherWarnings" =>
                      "isOptedInToWeatherWarnings" \in CallsOf(i)
                /\ "sendWeatherWarning" \in CallsOf(i) =>
                      /\ OptedInItem(i.startTable, i.location)
                      /\ ~ItemExists(i.startTable, i.location, "weather_warning", {now})
                      /\ WarningsOfWeek(i.startTable, i.location) < 2
                /\ Finished(i) =>
                      /\ i.response.statusCode = 200
                      /\ ~i.response.weather.isGood
                      /\ i.response.type # "weather_reminder"
                      /\ i.response.sent <=> "sendWeatherWarning" \in CallsOf(i)

\* C39 witness: without a forecast point, the opted-in location was sent a
\* warning, recorded with temperature 0.
C39_Witness ==
    \E p \in Procs :
        /\ Finished(inv[p])
        /\ NoForecastFound(inv[p])
        /\ inv[p].response.sent
        /\ inv[p].response.type = "weather_warning"
        /\ delivered[<<inv[p].location, "weather_warning", now>>] = 1
        /\ \E r \in table : /\ r.location = inv[p].location
                            /\ r.messageType = "weather_warning"
                            /\ r.date = {now}
                            /\ r.temperature = {0}

\* C39 witness without opt-in: the invocation ends with nothing sent.
C39_OptedOutWitness ==
    \E p \in Procs :
        /\ Finished(inv[p])
        /\ NoForecastFound(inv[p])
        /\ ~OptedInItem(inv[p].startTable, inv[p].location)
        /\ ~inv[p].response.sent
        /\ delivered = EmptyBag

\* C39 witness of the warning guard: opted in, but a warning of today exists.
C39_GuardedWitness ==
    \E p \in Procs :
        /\ Finished(inv[p])
        /\ NoForecastFound(inv[p])
        /\ OptedInItem(inv[p].startTable, inv[p].location)
        /\ ItemExists(inv[p].startTable, inv[p].location, "weather_warning", {now})
        /\ ~inv[p].response.sent

====
